---- MODULE Spec2Model ----
(***************************************************************************)
(* State-machine model of fleetchain: the proof-of-work ledger             *)
(* (src/src/blockchain.rs), the commitment scheme (src/src/crypto.rs),     *)
(* the domain model (src/src/game.rs), the coordinator                     *)
(* (src/src/coordinator.rs) and the node's peer-facing handlers            *)
(* (src/src/api.rs, src/src/network.rs).                                   *)
(*                                                                         *)
(* Strings are sequences of ASCII codes.  SHA-256 is idealised as a        *)
(* collision-free function: the hex string it yields is modelled by its    *)
(* first HashDigits hex digits (computed from the input bytes, they decide *)
(* the proof-of-work test) followed by the input itself, which stands for  *)
(* the remaining digits and makes distinct inputs give distinct strings.   *)
(***************************************************************************)
EXTENDS Integers, Sequences, FiniteSets, Bags, TLC

(***************************************************************************)
(* Bounds of the exploration.                                              *)
(***************************************************************************)
MaxChain == 3
MaxPending == 2
MaxUtxos == 2
MaxTime == 0
MaxGridEntries == 2

Timestamps == 0..MaxTime
Difficulties == {0, 1}
NodeDifficulties == {1}
Ids == {"p1", "p2"}

(***************************************************************************)
(* Strings.                                                                *)
(***************************************************************************)
Bytes(id) == IF id = "p1" THEN <<112, 49>> ELSE IF id = "p2" THEN <<112, 50>> ELSE <<112, 51>>

Colon == 58
Comma == 44
Quote == 34

RegistrationStr == <<114, 101, 103, 105, 115, 116, 114, 97, 116, 105, 111, 110>>

RECURSIVE Dec(_)
Dec(n) == IF n < 10 THEN <<48 + n>> ELSE Dec(n \div 10) \o <<48 + (n % 10)>>

HexChar(v) == IF v < 10 THEN 48 + v ELSE 87 + v

RECURSIVE Zeros(_)
Zeros(d) == IF d = 0 THEN <<>> ELSE <<48>> \o Zeros(d - 1)

StartsWith(s, prefix) ==
    /\ Len(s) >= Len(prefix)
    /\ \A i \in 1..Len(prefix) : s[i] = prefix[i]

\* sum of the bytes, and sum of the bytes weighted by their position (a sequence
\* of positive numbers is a bag whose cardinality is the sum of its entries)
Sum(s) == BagCardinality([i \in 1..Len(s) |-> s[i] + 1]) - Len(s)

WeightedSum(s) == BagCardinality([i \in 1..Len(s) |-> i * (s[i] + 1)]) - (Len(s) * (Len(s) + 1)) \div 2

HashDigits == 2

Sha256Hex(bytes) ==
    <<HexChar(Sum(bytes) % 16), HexChar(WeightedSum(bytes) % 16)>> \o bytes

(***************************************************************************)
(* crypto.rs                                                               *)
(***************************************************************************)
PosLess(a, b) == a[1] < b[1] \/ (a[1] = b[1] /\ a[2] < b[2])

RECURSIVE Insert(_, _)
Insert(p, s) ==
    IF s = <<>> THEN <<p>>
    ELSE IF PosLess(s[1], p) \/ s[1] = p THEN <<s[1]>> \o Insert(p, Tail(s))
    ELSE <<p>> \o s

RECURSIVE SortPositions(_)
SortPositions(s) == IF s = <<>> THEN <<>> ELSE Insert(s[1], SortPositions(Tail(s)))

RECURSIVE PairBytes(_)
PairBytes(s) == IF s = <<>> THEN <<>> ELSE <<s[1][1], s[1][2]>> \o PairBytes(Tail(s))

\* create_commitment without sorted_positions.sort()
create_commitment_Unsorted(positions, salt) == Sha256Hex(PairBytes(positions) \o salt)

create_commitment(positions, salt) == Sha256Hex(PairBytes(SortPositions(positions)) \o salt)

\* verify_commitment comparing the lengths of the two hex strings only
verify_commitment_Length(commitment, positions, salt) ==
    Len(create_commitment(positions, salt)) = Len(commitment)

verify_commitment(commitment, positions, salt) == create_commitment(positions, salt) = commitment

(***************************************************************************)
(* blockchain.rs: Transaction, Block                                       *)
(***************************************************************************)
\* Transaction::new with the coordinates swapped
TransactionNew_Swapped(player_id, target_x, target_y, nonce, now) ==
    [player_id |-> player_id, target_x |-> target_y, target_y |-> target_x,
     timestamp |-> now, nonce |-> nonce]

TransactionNew(player_id, target_x, target_y, nonce, now) ==
    [player_id |-> player_id, target_x |-> target_x, target_y |-> target_y,
     timestamp |-> now, nonce |-> nonce]

\* serde_json rendering of one Transaction; the constant key names are left out,
\* the quotes, separators and braces that delimit the values are kept
TxJson(tx) ==
    <<123, Quote>> \o Bytes(tx.player_id) \o <<Quote, Comma>> \o Dec(tx.target_x) \o <<Comma>>
        \o Dec(tx.target_y) \o <<Comma>> \o Dec(tx.timestamp) \o <<Comma>> \o Dec(tx.nonce) \o <<125>>

RECURSIVE TxsJoin(_)
TxsJoin(txs) ==
    IF txs = <<>> THEN <<>>
    ELSE IF Len(txs) = 1 THEN TxJson(txs[1])
    ELSE TxJson(txs[1]) \o <<Comma>> \o TxsJoin(Tail(txs))

TxsJson(txs) == <<91>> \o TxsJoin(txs) \o <<93>>

calculate_hash(block) ==
    Sha256Hex(Dec(block.index) \o Dec(block.timestamp) \o TxsJson(block.transactions)
                \o block.previous_hash \o Dec(block.nonce))

BlockNew(index, transactions, previous_hash, now) ==
    LET blank == [index |-> index, timestamp |-> now, transactions |-> transactions,
                  previous_hash |-> previous_hash, hash |-> <<>>, nonce |-> 0]
    IN [blank EXCEPT !.hash = calculate_hash(blank)]

\* mine without the nonce search
mine_NoWork(block, difficulty) == block

\* mine giving up after the first nonce
mine_OneStep(block, difficulty) ==
    IF StartsWith(block.hash, Zeros(difficulty)) THEN block
    ELSE LET bumped == [block EXCEPT !.nonce = block.nonce + 1]
         IN [bumped EXCEPT !.hash = calculate_hash(bumped)]

RECURSIVE mine(_, _)
mine(block, difficulty) ==
    IF StartsWith(block.hash, Zeros(difficulty)) THEN block
    ELSE LET bumped == [block EXCEPT !.nonce = block.nonce + 1]
         IN mine([bumped EXCEPT !.hash = calculate_hash(bumped)], difficulty)

(***************************************************************************)
(* blockchain.rs: Blockchain                                               *)
(***************************************************************************)
GenesisPrev == <<48>>

create_genesis_block(now) == BlockNew(0, <<>>, GenesisPrev, now)

BlockchainNew(difficulty, now) ==
    [chain |-> <<create_genesis_block(now)>>, difficulty |-> difficulty,
     pending_transactions |-> <<>>, mining_reward |-> 1, shot_utxos |-> <<>>]

get_latest_block(bc) == bc.chain[Len(bc.chain)]

add_transaction(bc, tx) ==
    [bc EXCEPT !.pending_transactions = Append(bc.pending_transactions, tx)]

\* the minted ShotUtxo, already marked spent
MinedUtxo_Spent(miner, block_hash, next_index, i) ==
    [id |-> Sha256Hex(Bytes(miner) \o <<Colon>> \o block_hash \o <<Colon>> \o Dec(i)),
     owner |-> miner, created_in_block |-> next_index, spent |-> TRUE]

MinedUtxo(miner, block_hash, next_index, i) ==
    [id |-> Sha256Hex(Bytes(miner) \o <<Colon>> \o block_hash \o <<Colon>> \o Dec(i)),
     owner |-> miner, created_in_block |-> next_index, spent |-> FALSE]

\* mine_pending_transactions without the reset of pending_transactions
mine_pending_transactions_KeepPending(bc, miner, now) ==
    LET next_index == Len(bc.chain)
        block == mine(BlockNew(next_index, bc.pending_transactions, get_latest_block(bc).hash, now),
                      bc.difficulty)
        minted == [k \in 1..bc.mining_reward |-> MinedUtxo(miner, block.hash, next_index, k - 1)]
    IN [bc EXCEPT !.chain = Append(bc.chain, block),
                  !.shot_utxos = bc.shot_utxos \o minted]

mine_pending_transactions(bc, miner, now) ==
    LET next_index == Len(bc.chain)
        block == mine(BlockNew(next_index, bc.pending_transactions, get_latest_block(bc).hash, now),
                      bc.difficulty)
        minted == [k \in 1..bc.mining_reward |-> MinedUtxo(miner, block.hash, next_index, k - 1)]
    IN [bc EXCEPT !.chain = Append(bc.chain, block),
                  !.pending_transactions = <<>>,
                  !.shot_utxos = bc.shot_utxos \o minted]

\* the per-block test of is_chain_valid without the recomputation of the hash
BlockValid_NoRehash(bc, i) ==
    /\ bc.chain[i].previous_hash = bc.chain[i - 1].hash
    /\ StartsWith(bc.chain[i].hash, Zeros(bc.difficulty))

BlockValid(bc, i) ==
    /\ bc.chain[i].hash = calculate_hash(bc.chain[i])
    /\ bc.chain[i].previous_hash = bc.chain[i - 1].hash
    /\ StartsWith(bc.chain[i].hash, Zeros(bc.difficulty))

is_chain_valid(bc) == \A i \in 2..Len(bc.chain) : BlockValid(bc, i)

get_unspent_shots(bc, player_id) ==
    Cardinality({k \in 1..Len(bc.shot_utxos) :
                    bc.shot_utxos[k].owner = player_id /\ ~bc.shot_utxos[k].spent})

\* the search of consume_shot without the test of the owner
FirstUnspent_AnyOwner(bc, player_id) ==
    LET hits == {k \in 1..Len(bc.shot_utxos) : ~bc.shot_utxos[k].spent}
    IN IF hits = {} THEN 0 ELSE CHOOSE k \in hits : \A j \in hits : k <= j

FirstUnspent(bc, player_id) ==
    LET hits == {k \in 1..Len(bc.shot_utxos) :
                    bc.shot_utxos[k].owner = player_id /\ ~bc.shot_utxos[k].spent}
    IN IF hits = {} THEN 0 ELSE CHOOSE k \in hits : \A j \in hits : k <= j

\* consume_shot answering Ok also when the player has nothing to spend
consume_shot_NoCheck(bc, player_id) ==
    LET k == FirstUnspent(bc, player_id)
    IN IF k = 0 THEN [res |-> "Ok", bc |-> bc]
       ELSE [res |-> "Ok", bc |-> [bc EXCEPT !.shot_utxos[k].spent = TRUE]]

consume_shot(bc, player_id) ==
    LET k == FirstUnspent(bc, player_id)
    IN IF k = 0 THEN [res |-> "Err", bc |-> bc]
       ELSE [res |-> "Ok", bc |-> [bc EXCEPT !.shot_utxos[k].spent = TRUE]]

award_registration_shot(bc, player_id) ==
    LET latest_block == get_latest_block(bc)
        id == Sha256Hex(Bytes(player_id) \o <<Colon>> \o latest_block.hash \o <<Colon>> \o RegistrationStr)
    IN [bc EXCEPT !.shot_utxos = Append(bc.shot_utxos,
            [id |-> id, owner |-> player_id, created_in_block |-> latest_block.index, spent |-> FALSE])]

(***************************************************************************)
(* blockchain.rs: save_to_file, load_from_file.  A file is missing, cannot *)
(* be read as text, holds text that is no Blockchain, or holds the JSON of *)
(* a Blockchain; every field of Blockchain, Block, Transaction and         *)
(* ShotUtxo is serialised and read back as written, so the JSON of a       *)
(* ledger is modelled by the ledger it denotes.                            *)
(***************************************************************************)
NoFile == [kind |-> "missing", bc |-> BlockchainNew(0, 0)]
Unreadable == [kind |-> "unreadable", bc |-> BlockchainNew(0, 0)]
Garbage == [kind |-> "garbage", bc |-> BlockchainNew(0, 0)]
FileOf(bc) == [kind |-> "json", bc |-> bc]

file_exists(file) == file.kind # "missing"

\* fs::write succeeds ("ok"), fails before it touched the file ("kept") or fails
\* after it truncated the file ("torn")
WriteOutcomes == {"ok", "kept", "torn"}

save_to_file(file, bc, outcome) ==
    IF outcome = "ok" THEN [res |-> "Ok", file |-> FileOf(bc)]
    ELSE IF outcome = "torn" THEN [res |-> "Err", file |-> Garbage]
    ELSE [res |-> "Err", file |-> file]

\* load_from_file without the validation of the chain
load_from_file_Unchecked(file) ==
    IF file.kind \in {"missing", "unreadable"} THEN [res |-> "Err", bc |-> BlockchainNew(0, 0)]
    ELSE IF file.kind = "garbage" THEN [res |-> "Err", bc |-> BlockchainNew(0, 0)]
    ELSE [res |-> "Ok", bc |-> file.bc]

load_from_file(file) ==
    IF file.kind \in {"missing", "unreadable"} THEN [res |-> "Err", bc |-> BlockchainNew(0, 0)]
    ELSE IF file.kind = "garbage" THEN [res |-> "Err", bc |-> BlockchainNew(0, 0)]
    ELSE IF ~is_chain_valid(file.bc) THEN [res |-> "Err", bc |-> BlockchainNew(0, 0)]
    ELSE [res |-> "Ok", bc |-> file.bc]

(***************************************************************************)
(* game.rs: Ship, Grid, Player                                             *)
(***************************************************************************)
ShipNew(id, positions) ==
    [id |-> id, positions |-> positions, hits |-> [k \in 1..Len(positions) |-> FALSE]]

PositionIndex(positions, x, y) ==
    LET found == {k \in 1..Len(positions) : positions[k] = <<x, y>>}
    IN IF found = {} THEN 0 ELSE CHOOSE k \in found : \A j \in found : k <= j

register_hit(ship, x, y) ==
    LET idx == PositionIndex(ship.positions, x, y)
    IN IF idx = 0 THEN [hit |-> FALSE, ship |-> ship]
       ELSE [hit |-> TRUE, ship |-> [ship EXCEPT !.hits[idx] = TRUE]]

is_sunk(ship) == \A k \in 1..Len(ship.hits) : ship.hits[k]

GridNew(size) == [size |-> size, cells |-> <<>>]

CellPush(cells, pos, player_id) ==
    IF pos \in DOMAIN cells THEN [cells EXCEPT ![pos] = Append(cells[pos], player_id)]
    ELSE cells @@ (pos :> <<player_id>>)

RECURSIVE PushAll(_, _, _, _)
PushAll(cells, player_id, positions, k) ==
    IF k > Len(positions) THEN cells
    ELSE PushAll(CellPush(cells, positions[k], player_id), player_id, positions, k + 1)

place_ship(g, player_id, positions) ==
    IF \E k \in 1..Len(positions) : positions[k][1] >= g.size \/ positions[k][2] >= g.size
    THEN [res |-> "Err", grid |-> g]
    ELSE [res |-> "Ok", grid |-> [g EXCEPT !.cells = PushAll(g.cells, player_id, positions, 1)]]

PlayerNew(id, ships, board_commitment, salt) ==
    [id |-> id, ships |-> ships, board_commitment |-> board_commitment, salt |-> salt,
     shots_available |-> 0, shots_fired |-> <<>>]

\* add_shots crediting one shot too many
add_shots_OneMore(player, count) == [player EXCEPT !.shots_available = player.shots_available + count + 1]

add_shots(player, count) == [player EXCEPT !.shots_available = player.shots_available + count]

\* Player::fire_shot without the balance check
PlayerFireShot_Unchecked(player, x, y) ==
    [res |-> "Ok",
     player |-> [player EXCEPT !.shots_available = IF @ = 0 THEN 0 ELSE @ - 1,
                               !.shots_fired = Append(player.shots_fired, <<x, y>>)]]

PlayerFireShot(player, x, y) ==
    IF player.shots_available = 0 THEN [res |-> "Err", player |-> player]
    ELSE [res |-> "Ok",
          player |-> [player EXCEPT !.shots_available = player.shots_available - 1,
                                    !.shots_fired = Append(player.shots_fired, <<x, y>>)]]

FirstShipAt(ships, x, y) ==
    LET found == {k \in 1..Len(ships) : PositionIndex(ships[k].positions, x, y) # 0}
    IN IF found = {} THEN 0 ELSE CHOOSE k \in found : \A j \in found : k <= j

\* check_hit that flags nothing
check_hit_Skip(player, x, y) == player

check_hit(player, x, y) ==
    LET k == FirstShipAt(player.ships, x, y)
    IN IF k = 0 THEN player
       ELSE [player EXCEPT !.ships[k] = register_hit(player.ships[k], x, y).ship]

is_defeated(player) == \A k \in 1..Len(player.ships) : is_sunk(player.ships[k])

RECURSIVE FlatPositions(_)
FlatPositions(ships) ==
    IF ships = <<>> THEN <<>> ELSE ships[1].positions \o FlatPositions(Tail(ships))

get_all_ship_positions(player) == FlatPositions(player.ships)

(***************************************************************************)
(* crypto.rs: HitProof                                                     *)
(***************************************************************************)
\* revealed_position is <<>> for None and <<pos>> for Some(pos)
prove_hit(position, fresh_salt) ==
    [commitment |-> create_commitment(<<position>>, fresh_salt),
     revealed_position |-> <<position>>, position_salt |-> fresh_salt]

prove_miss(all_positions, board_salt) ==
    [commitment |-> create_commitment(all_positions, board_salt),
     revealed_position |-> <<>>, position_salt |-> board_salt]

\* verify_hit that also wants the proof's commitment to be the board's
verify_hit_Bound(proof, shot_position, board_commitment) ==
    IF proof.revealed_position = <<>> THEN FALSE
    ELSE /\ proof.revealed_position[1] = shot_position
         /\ create_commitment(<<proof.revealed_position[1]>>, proof.position_salt) = proof.commitment
         /\ proof.commitment = board_commitment

verify_hit(proof, shot_position, board_commitment) ==
    IF proof.revealed_position = <<>> THEN FALSE
    ELSE /\ proof.revealed_position[1] = shot_position
         /\ create_commitment(<<proof.revealed_position[1]>>, proof.position_salt) = proof.commitment

\* verify_miss without the comparison with the board commitment
verify_miss_AnyCommitment(proof, shot_position, board_commitment) ==
    proof.revealed_position = <<>>

verify_miss(proof, shot_position, board_commitment) ==
    proof.commitment = board_commitment /\ proof.revealed_position = <<>>

(***************************************************************************)
(* coordinator.rs: pure parts                                              *)
(***************************************************************************)
Builds == {"debug", "release"}

\* the loop `sorted[i].a != sorted[i - 1].a + 1` over a u8 coordinate: the
\* addition overflows at 255, which aborts a debug build and wraps in release
RECURSIVE Consecutive(_, _, _, _)
Consecutive(sorted, axis, i, build) ==
    IF i > Len(sorted) THEN "true"
    ELSE IF sorted[i - 1][axis] = 255 /\ build = "debug" THEN "panic"
    ELSE IF sorted[i][axis] # (sorted[i - 1][axis] + 1) % 256 THEN "false"
    ELSE Consecutive(sorted, axis, i + 1, build)

\* is_valid_ship_placement without the check for gaps
is_valid_ship_placement_AnyLine(positions, build) ==
    IF Len(positions) = 0 THEN "false"
    ELSE IF (\A k \in 1..Len(positions) : positions[k][2] = positions[1][2])
            \/ (\A k \in 1..Len(positions) : positions[k][1] = positions[1][1])
    THEN "true" ELSE "false"

is_valid_ship_placement(positions, build) ==
    IF Len(positions) = 0 THEN "false"
    ELSE IF Len(positions) = 1 THEN "true"
    ELSE LET sorted_positions == SortPositions(positions)
             all_same_y == \A k \in 1..Len(sorted_positions) :
                               sorted_positions[k][2] = sorted_positions[1][2]
             all_same_x == \A k \in 1..Len(sorted_positions) :
                               sorted_positions[k][1] = sorted_positions[1][1]
         IN IF all_same_y THEN Consecutive(sorted_positions, 1, 2, build)
            ELSE IF all_same_x THEN Consecutive(sorted_positions, 2, 2, build)
            ELSE "false"

RECURSIVE InsertNat(_, _)
InsertNat(n, s) ==
    IF s = <<>> THEN <<n>>
    ELSE IF s[1] <= n THEN <<s[1]>> \o InsertNat(n, Tail(s))
    ELSE <<n>> \o s

RECURSIVE SortedSizes(_)
SortedSizes(ships) ==
    IF ships = <<>> THEN <<>> ELSE InsertNat(Len(ships[1].positions), SortedSizes(Tail(ships)))

\* first ship (in fleet order) whose placement check does not answer "true", 0 if none
FirstBadPlacement(ships, build) ==
    LET bad == {k \in 1..Len(ships) : is_valid_ship_placement(ships[k].positions, build) # "true"}
    IN IF bad = {} THEN 0 ELSE CHOOSE k \in bad : \A j \in bad : k <= j

\* `for ship in &ships { self.grid.place_ship(..)?; }`: stops at the first error,
\* keeping what the earlier iterations wrote
RECURSIVE PlaceShips(_, _, _, _)
PlaceShips(g, player_id, ships, k) ==
    IF k > Len(ships) THEN [res |-> "Ok", grid |-> g]
    ELSE LET placed == place_ship(g, player_id, ships[k].positions)
         IN IF placed.res = "Err" THEN placed
            ELSE PlaceShips(placed.grid, player_id, ships, k + 1)

register_player(g, pl, player_id, ships, board_commitment, salt, build) ==
    LET unchanged(res) == [res |-> res, grid |-> g, players |-> pl]
        bad == FirstBadPlacement(ships, build)
    IN IF Len(ships) # 4 THEN unchanged("Err")
       ELSE IF SortedSizes(ships) # <<1, 2, 3, 4>> THEN unchanged("Err")
       ELSE IF bad # 0
            THEN (IF is_valid_ship_placement(ships[bad].positions, build) = "panic"
                  THEN unchanged("Panic") ELSE unchanged("Err"))
       ELSE IF ~verify_commitment(board_commitment, FlatPositions(ships), salt) THEN unchanged("Err")
       ELSE LET placed == PlaceShips(g, player_id, ships, 1)
            IN IF placed.res = "Err" THEN [res |-> "Err", grid |-> placed.grid, players |-> pl]
               ELSE [res |-> "Ok", grid |-> placed.grid,
                     players |-> [q \in (DOMAIN pl) \cup {player_id} |->
                                     IF q = player_id
                                     THEN PlayerNew(player_id, ships, board_commitment, salt)
                                     ELSE pl[q]]]

\* is_player_defeated that never reports a defeat
is_player_defeated_Never(pl, player_id) == FALSE

is_player_defeated(pl, player_id) == player_id \in DOMAIN pl /\ is_defeated(pl[player_id])

get_active_players(pl) == {q \in DOMAIN pl : ~is_defeated(pl[q])}

(***************************************************************************)
(* Requests the environment sends.                                         *)
(***************************************************************************)
GridSize == 10

Salt1 == <<97, 49>>
Salt2 == <<98, 50>>

Carrier == ShipNew("Carrier", <<<<0, 0>>, <<0, 1>>, <<0, 2>>, <<0, 3>>>>)
Cruiser == ShipNew("Cruiser", <<<<2, 0>>, <<2, 1>>, <<2, 2>>>>)
Submarine == ShipNew("Submarine", <<<<4, 0>>, <<4, 1>>>>)
Destroyer == ShipNew("Destroyer", <<<<6, 0>>>>)

\* the fleet of tests/coordinator_tests.rs: every ship along one column
FleetV == <<Carrier, Cruiser, Submarine, Destroyer>>
\* every ship along one row, cells listed out of order, sharing cells with FleetV
FleetH == <<ShipNew("Destroyer", <<<<0, 3>>>>),
            ShipNew("Carrier", <<<<3, 0>>, <<1, 0>>, <<2, 0>>, <<0, 0>>>>),
            ShipNew("Submarine", <<<<1, 2>>, <<0, 2>>>>),
            ShipNew("Cruiser", <<<<0, 1>>, <<1, 1>>, <<2, 1>>>>)>>
FleetThree == <<Carrier, Cruiser, Submarine>>
FleetFive == <<Carrier, Cruiser, Submarine, Destroyer, ShipNew("Extra", <<<<8, 8>>>>)>>
Fleet1134 == <<Carrier, Cruiser, ShipNew("Destroyer2", <<<<4, 0>>>>), Destroyer>>
Fleet2234 == <<Carrier, Cruiser, Submarine, ShipNew("Submarine2", <<<<6, 0>>, <<6, 1>>>>)>>
FleetDiagonal == <<ShipNew("Carrier", <<<<0, 0>>, <<1, 1>>, <<2, 2>>, <<3, 3>>>>),
                   Cruiser, Submarine, Destroyer>>
FleetGapped == <<ShipNew("Carrier", <<<<0, 0>>, <<0, 1>>, <<0, 3>>, <<0, 4>>>>),
                 Cruiser, Submarine, Destroyer>>
FleetBent == <<Carrier, ShipNew("Cruiser", <<<<2, 0>>, <<2, 1>>, <<3, 1>>>>), Submarine, Destroyer>>
FleetRepeated == <<Carrier, Cruiser, ShipNew("Submarine", <<<<4, 0>>, <<4, 0>>>>), Destroyer>>
\* well-formed, but the second ship lies outside every grid the model uses
FleetOutside == <<Carrier, ShipNew("Cruiser", <<<<200, 0>>, <<200, 1>>, <<200, 2>>>>),
                  Submarine, Destroyer>>
\* well-formed, outside the grid from its first ship on
FleetFarOutside == <<ShipNew("Carrier", <<<<200, 0>>, <<200, 1>>, <<200, 2>>, <<200, 3>>>>),
                     Cruiser, Submarine, Destroyer>>

\* a ship on the last column a u8 can name
FleetEdge == <<Carrier, Cruiser, ShipNew("Submarine", <<<<255, 0>>, <<255, 0>>>>), Destroyer>>

\* the test fleet as a request body may spell it: Ship is deserialised field
\* by field, here a Destroyer with an empty hits list
FleetNoFlags == <<Carrier, Cruiser, Submarine, [Destroyer EXCEPT !.hits = <<>>]>>

\* well-formed ships, the Destroyer on the first cell of the Carrier
FleetOverlapping == <<Carrier, Cruiser, Submarine, ShipNew("Destroyer", <<<<0, 0>>>>)>>

Committed(ships, salt) ==
    [ships |-> ships, board_commitment |-> create_commitment(FlatPositions(ships), salt), salt |-> salt]

RegisterRequests ==
    << Committed(FleetV, Salt1),
       Committed(FleetH, Salt1),
       Committed(FleetThree, Salt1),
       Committed(FleetFive, Salt1),
       Committed(Fleet1134, Salt1),
       Committed(Fleet2234, Salt1),
       Committed(FleetDiagonal, Salt1),
       Committed(FleetGapped, Salt1),
       Committed(FleetBent, Salt1),
       Committed(FleetRepeated, Salt1),
       Committed(FleetOutside, Salt1),
       Committed(FleetFarOutside, Salt1),
       Committed(FleetEdge, Salt1),
       \* commitment over another position set
       [Committed(FleetV, Salt1) EXCEPT !.board_commitment = create_commitment(FlatPositions(FleetH), Salt1)],
       \* commitment under another salt
       [Committed(FleetV, Salt1) EXCEPT !.board_commitment = create_commitment(FlatPositions(FleetV), Salt2)],
       \* a string that is no hash at all
       [Committed(FleetH, Salt1) EXCEPT !.board_commitment = <<119>>],
       Committed(FleetNoFlags, Salt1),
       Committed(FleetOverlapping, Salt1) >>

\* the requests a game sends: the test fleet and a fleet one ship short
GameRequests == {1, 3}

\* the requests that put a board in place: the column fleet and the row fleet
BoardRequests == {1, 2}

FireTargets == {<<3, 7>>}

\* the transactions handed to the ledger directly
LedgerTxs == {<<"p1", 0, 0>>, <<"p2", 5, 5>>}

\* the players whose hits are reported
Reporters == {"p1"}

OffFleet == <<9, 9>>

FirstUnhit(player) ==
    LET cells == get_all_ship_positions(player)
        open == {k \in 1..Len(cells) :
                    \E s \in 1..Len(player.ships) :
                        LET idx == PositionIndex(player.ships[s].positions, cells[k][1], cells[k][2])
                        IN idx # 0 /\ ~player.ships[s].hits[idx]}
    IN IF open = {} THEN {} ELSE {cells[CHOOSE k \in open : \A j \in open : k <= j]}

\* reports walk a fleet cell by cell: the next cell not yet hit, the cell
\* (0, 0) again, and a cell no fleet occupies
ReportTargets(pl, player_id) ==
    {OffFleet, <<0, 0>>} \cup (IF player_id \in DOMAIN pl THEN FirstUnhit(pl[player_id]) ELSE {})

\* the proof bytes of a report: either they decode to a HitProof or serde_json
\* rejects them
Encoded(proof) == [decodes |-> TRUE, proof |-> proof]
Undecodable == [decodes |-> FALSE, proof |-> prove_miss(<<>>, <<>>)]

\* the miss proof a player makes from the own board
OwnMiss(pl, player_id) ==
    IF player_id \in DOMAIN pl
    THEN prove_miss(get_all_ship_positions(pl[player_id]), pl[player_id].salt)
    ELSE prove_miss(FlatPositions(FleetV), Salt1)

\* proofs a report may carry: a hit proof for the shot, one for another cell,
\* one whose salt was replaced, the miss proof of the own board, the same
\* revealing the shot, the miss proof of another board, and bytes that do not
\* decode
ReportProofs(pl, player_id, shot) ==
    { Encoded(prove_hit(shot, Salt2)),
      Encoded(prove_hit(OffFleet, Salt2)),
      Encoded([prove_hit(shot, Salt2) EXCEPT !.position_salt = Salt1]),
      Encoded(OwnMiss(pl, player_id)),
      Encoded([OwnMiss(pl, player_id) EXCEPT !.revealed_position = <<shot>>]),
      Encoded(prove_miss(<<OffFleet>>, Salt2)),
      Undecodable }

(***************************************************************************)
(* State.                                                                  *)
(***************************************************************************)
\* blockchain, grid, players, round: the fields of GameCoordinator
\* last:  the latest call and what it returned (is_hit and wire: the claimed
\*        outcome and the proof bytes of a report_hit call; block: the block of
\*        a receive_block call)
\* tally: per player, the successful fire_shot calls so far, the credits
\*        mine_for_shots has awarded so far, the ShotUtxos minted for the player
\*        so far and the player's successful consume_shot calls so far
\*        (history, read by no operation)
\* blockchain_path: the field of GameCoordinator, "None" or "Some"
\* disk:  the file blockchain_path names
\* lock:  the request that holds the write half of the RwLock around the
\*        coordinator, NoHolder when it is free
\* pc:    where each mine request stands inside its handler
\* seen:  what the latest GET /api/blockchain returned
\* net:   two nodes that are each other's peer: the ledger and the user's
\*        balance of each, and what each handler in flight made and cloned
\* ctl:   the holder of the coordinator's lock of each of the two nodes,
\*        and where each handler in flight stands
VARIABLES blockchain, grid, players, round, last, tally, blockchain_path, disk, lock, pc, seen, net, ctl

vars == <<blockchain, grid, players, round, last, tally, blockchain_path, disk, lock, pc, seen, net, ctl>>

MineRequests == {"m1", "m2"}

NoHolder == "none"

NoView == [taken |-> FALSE, blockchain |-> BlockchainNew(0, 0), midway |-> {}]

NoTally ==
    [fired |-> [p \in Ids |-> 0], awarded |-> [p \in Ids |-> 0],
     minted |-> [p \in Ids |-> 0], consumed |-> [p \in Ids |-> 0]]

NoCall ==
    [op |-> "none", pid |-> "", x |-> 0, y |-> 0, req |-> 0, res |-> "", ret |-> 0,
     is_hit |-> FALSE, wire |-> Undecodable, block |-> create_genesis_block(0),
     ledger |-> BlockchainNew(0, 0), saved |-> "none",
     positions |-> <<>>, salt |-> <<>>, commitment |-> <<>>]

Call(op, pid, x, y, req, res, ret) ==
    [NoCall EXCEPT !.op = op, !.pid = pid, !.x = x, !.y = y, !.req = req, !.res = res, !.ret = ret]

\* the two nodes; each has the other as its only peer
Nodes == {"A", "B"}

PeerOf(n) == IF n = "A" THEN "B" ELSE "A"

\* the requests in flight: POST /api/mine on both nodes, POST /api/fire on A
\* and POST /api/sync on B
Handlers == {"A.mine", "B.mine", "A.fire", "B.sync"}

NodeOf(h) == IF h \in {"A.mine", "A.fire"} THEN "A" ELSE "B"

KindOf(h) == IF h \in {"A.mine", "B.mine"} THEN "mine" ELSE IF h = "A.fire" THEN "fire" ELSE "sync"

\* the player named in the requests a node's user sends it
NodePlayer(n) == IF n = "A" THEN "p1" ELSE "p2"

NoItem == [kind |-> "none"]

\* both nodes as constructed, with the user of each registered on it
NoNet ==
    [ledger |-> [n \in Nodes |-> BlockchainNew(1, 0)],
     shots  |-> [n \in Nodes |-> 0],
     made   |-> [h \in Handlers |-> NoItem],
     out    |-> [h \in Handlers |-> NoItem]]

\* no request in flight, both locks free
NoCtl ==
    [lock |-> [n \in Nodes |-> NoHolder],
     pc   |-> [h \in Handlers |-> "idle"]]

\* GameCoordinator::new(grid_size, mining_difficulty)
Init ==
    /\ \E d \in NodeDifficulties, now \in Timestamps : blockchain = BlockchainNew(d, now)
    /\ grid = GridNew(GridSize)
    /\ players = <<>>
    /\ round = 0
    /\ last = NoCall
    /\ tally = NoTally
    /\ blockchain_path = "None"
    /\ disk = NoFile
    /\ lock = NoHolder
    /\ pc = [r \in MineRequests |-> "idle"]
    /\ seen = NoView
    /\ net = NoNet
    /\ ctl = NoCtl

(***************************************************************************)
(* Ledger operations called directly (blockchain.rs).                      *)
(***************************************************************************)
DiskFrame == UNCHANGED <<blockchain_path, disk>>

LockFrame == UNCHANGED <<lock, pc, seen, net, ctl>>

LedgerFrame == UNCHANGED <<grid, players, round>> /\ DiskFrame /\ LockFrame

AddTransaction(pid, x, y, now) ==
    /\ Len(blockchain.pending_transactions) < MaxPending
    /\ blockchain' = add_transaction(blockchain, TransactionNew(pid, x, y, 0, now))
    /\ last' = Call("add_transaction", pid, x, y, 0, "Ok", 0)
    /\ UNCHANGED tally
    /\ LedgerFrame

MinePendingTransactions(miner, now) ==
    /\ Len(blockchain.chain) < MaxChain
    /\ Len(blockchain.shot_utxos) + blockchain.mining_reward <= MaxUtxos
    /\ blockchain' = mine_pending_transactions(blockchain, miner, now)
    /\ last' = Call("mine_pending_transactions", miner, 0, 0, 0, "Ok", blockchain.mining_reward)
    /\ tally' = [tally EXCEPT !.minted[miner] = @ + blockchain.mining_reward]
    /\ LedgerFrame

ConsumeShot(pid) ==
    /\ blockchain' = consume_shot(blockchain, pid).bc
    /\ last' = Call("consume_shot", pid, 0, 0, 0, consume_shot(blockchain, pid).res, 0)
    /\ tally' = IF consume_shot(blockchain, pid).res = "Ok"
                THEN [tally EXCEPT !.consumed[pid] = @ + 1] ELSE tally
    /\ LedgerFrame

AwardRegistrationShot(pid) ==
    /\ Len(blockchain.shot_utxos) < MaxUtxos
    /\ blockchain' = award_registration_shot(blockchain, pid)
    /\ last' = Call("award_registration_shot", pid, 0, 0, 0, "Ok", 0)
    /\ tally' = [tally EXCEPT !.minted[pid] = @ + 1]
    /\ LedgerFrame

\* the blocks that differ from block in one of hash, previous_hash,
\* transactions and nonce (the fields of Block are public)
Tampered(block) ==
    LET txs == block.transactions
        changed ==
            {[block EXCEPT !.hash = h] :
                h \in {Zeros(HashDigits), block.previous_hash,
                       calculate_hash([block EXCEPT !.nonce = block.nonce + 1])}}
            \cup {[block EXCEPT !.previous_hash = h] : h \in {GenesisPrev, block.hash, Zeros(HashDigits)}}
            \cup {[block EXCEPT !.transactions = t] :
                    t \in {Append(txs, TransactionNew("p3", 9, 9, 0, 0)), <<>>}
                          \cup (IF txs = <<>> THEN {}
                                ELSE {Tail(txs), [txs EXCEPT ![1].target_x = (txs[1].target_x + 1) % 256]})}
            \cup {[block EXCEPT !.nonce = n] : n \in {block.nonce + 1, 0}}
    IN changed \ {block}

\* one field of block i is overwritten, then is_chain_valid() is called
TamperAndValidate(i, block) ==
    /\ blockchain' = [blockchain EXCEPT !.chain[i] = block]
    /\ last' = Call("is_chain_valid", "", 0, 0, i,
                    IF is_chain_valid([blockchain EXCEPT !.chain[i] = block]) THEN "true" ELSE "false", 0)
    /\ UNCHANGED tally
    /\ LedgerFrame

(***************************************************************************)
(* Coordinator operations (coordinator.rs).                                *)
(***************************************************************************)
\* save_blockchain: writes only when blockchain_path is Some
SaveOutcomes(path) == IF path = "None" THEN {"none"} ELSE WriteOutcomes

save_blockchain(path, file, bc, outcome) ==
    IF path = "None" THEN [res |-> "Ok", file |-> file] ELSE save_to_file(file, bc, outcome)

\* GameCoordinator::with_persistence: the ledger of the snapshot when it
\* loads, a new ledger otherwise, saved at once (a failed write is only logged)
with_persistence(grid_size, mining_difficulty, file, now, outcome) ==
    LET loaded == load_from_file(file)
        bc == IF file_exists(file)
              THEN (IF loaded.res = "Ok" THEN loaded.bc ELSE BlockchainNew(mining_difficulty, now))
              ELSE BlockchainNew(mining_difficulty, now)
    IN [blockchain |-> bc, grid |-> GridNew(grid_size), players |-> <<>>, round |-> 0,
        blockchain_path |-> "Some", disk |-> save_blockchain("Some", file, bc, outcome).file]

GridLoad(g) ==
    IF DOMAIN g.cells = {} THEN 0
    ELSE LET c == CHOOSE c \in DOMAIN g.cells : \A e \in DOMAIN g.cells : Len(g.cells[e]) <= Len(g.cells[c])
         IN Len(g.cells[c])

RegisterPlayer(pid, r, build) ==
    LET req == RegisterRequests[r]
        out == register_player(grid, players, pid, req.ships, req.board_commitment, req.salt, build)
    IN /\ GridLoad(grid) < MaxGridEntries
       /\ grid' = out.grid
       /\ players' = out.players
       /\ last' = Call("register_player", pid, 0, 0, r, out.res, 0)
       /\ UNCHANGED <<blockchain, round, tally>>
       /\ DiskFrame /\ LockFrame

MineForShots(pid, now) ==
    /\ Len(blockchain.chain) < MaxChain
    /\ IF pid \notin DOMAIN players \/ is_player_defeated(players, pid)
       THEN /\ last' = Call("mine_for_shots", pid, 0, 0, 0, "Err", 0)
            /\ UNCHANGED <<blockchain, players, tally, disk>>
       ELSE LET shots_earned == blockchain.mining_reward
                mined == mine_pending_transactions(blockchain, pid, now)
            IN /\ blockchain' = mined
               /\ players' = [players EXCEPT ![pid] = add_shots(players[pid], shots_earned)]
               /\ \E outcome \in SaveOutcomes(blockchain_path) :
                     /\ disk' = save_blockchain(blockchain_path, disk, mined, outcome).file
                     /\ last' = [Call("mine_for_shots", pid, 0, 0, 0, "Ok", shots_earned)
                                    EXCEPT !.saved = outcome]
               /\ tally' = [tally EXCEPT !.awarded[pid] = @ + shots_earned,
                                          !.minted[pid] = @ + shots_earned]
    /\ UNCHANGED <<grid, round, blockchain_path>>
    /\ LockFrame

FireShot(pid, x, y, now) ==
    /\ Len(blockchain.pending_transactions) < MaxPending
    /\ IF pid \notin DOMAIN players
       THEN /\ last' = Call("fire_shot", pid, 0, 0, 0, "Err", 0)
            /\ UNCHANGED <<blockchain, players, tally, disk>>
       ELSE LET fired == PlayerFireShot(players[pid], x, y)
                added == add_transaction(blockchain, TransactionNew(pid, x, y, 0, now))
            IN IF fired.res = "Err"
               THEN /\ last' = Call("fire_shot", pid, 0, 0, 0, "Err", 0)
                    /\ UNCHANGED <<blockchain, players, tally, disk>>
               ELSE /\ players' = [players EXCEPT ![pid] = fired.player]
                    /\ blockchain' = added
                    /\ \E outcome \in SaveOutcomes(blockchain_path) :
                          /\ disk' = save_blockchain(blockchain_path, disk, added, outcome).file
                          /\ last' = [Call("fire_shot", pid, x, y, 0, "Ok", 0) EXCEPT !.saved = outcome]
                    /\ tally' = [tally EXCEPT !.fired[pid] = @ + 1]
    /\ UNCHANGED <<grid, round, blockchain_path>>
    /\ LockFrame

ReportCall(pid, shot, is_hit, wire, res, ret) ==
    [Call("report_hit", pid, shot[1], shot[2], 0, res, ret) EXCEPT !.is_hit = is_hit, !.wire = wire]

ReportHit(pid, shot, is_hit, wire) ==
    /\ IF pid \notin DOMAIN players \/ ~wire.decodes
       THEN /\ last' = ReportCall(pid, shot, is_hit, wire, "Err", 0)
            /\ UNCHANGED players
       ELSE LET is_valid == IF is_hit
                            THEN verify_hit(wire.proof, shot, players[pid].board_commitment)
                            ELSE verify_miss(wire.proof, shot, players[pid].board_commitment)
            IN IF ~is_valid
               THEN /\ last' = ReportCall(pid, shot, is_hit, wire, "Err", 0)
                    /\ UNCHANGED players
               ELSE /\ players' = IF is_hit
                                  THEN [players EXCEPT ![pid] = check_hit(players[pid], shot[1], shot[2])]
                                  ELSE players
                    /\ last' = ReportCall(pid, shot, is_hit, wire, "Ok", 1)
    /\ UNCHANGED <<blockchain, grid, round, tally>>
    /\ DiskFrame /\ LockFrame

\* report_hit as a game sends it: a hit with its proof, or bytes that do not
\* decode
Report ==
    \E pid \in Reporters :
        \/ \E shot \in ReportTargets(players, pid) :
              ReportHit(pid, shot, TRUE, Encoded(prove_hit(shot, Salt2)))
        \/ ReportHit(pid, OffFleet, FALSE, Undecodable)

\* report_hit with every report the environment can build
ReportAny ==
    \E pid \in Reporters, is_hit \in BOOLEAN :
        \E shot \in ReportTargets(players, pid) :
            \E wire \in ReportProofs(players, pid, shot) : ReportHit(pid, shot, is_hit, wire)

\* the requests of a game played to the end: the test fleet and the fleet
\* with two ships on one cell
DefeatRequests == {1, 18}

\* a hit report, with a proof that verifies, for any cell of the player's fleet
ReportFleetCell ==
    \E pid \in Reporters :
        /\ pid \in DOMAIN players
        /\ LET cells == get_all_ship_positions(players[pid])
           IN \E k \in 1..Len(cells) : ReportHit(pid, cells[k], TRUE, Encoded(prove_hit(cells[k], Salt2)))

(***************************************************************************)
(* Peer-facing handlers (api.rs, network.rs) and what peers may send.      *)
(***************************************************************************)
PeerTx == TransactionNew("p2", 5, 5, 0, 0)

\* a block a peer mined on top of the local chain
HonestBlock(bc) ==
    mine(BlockNew(Len(bc.chain), <<PeerTx>>, get_latest_block(bc).hash, 0), bc.difficulty)

\* blocks a peer may post: the honest one, the same with its transactions
\* dropped after mining, with a wrong index, with a wrong parent, with a hash
\* that is just zeros, and one never mined
PeerBlocks(bc, honest) ==
    { honest,
      [honest EXCEPT !.transactions = <<>>],
      [honest EXCEPT !.index = Len(bc.chain) + 1],
      [honest EXCEPT !.previous_hash = GenesisPrev],
      [honest EXCEPT !.hash = Zeros(HashDigits)],
      BlockNew(Len(bc.chain), <<>>, get_latest_block(bc).hash, 1) }

RECURSIVE PeerLedger(_, _)
PeerLedger(d, n) ==
    IF n = 0 THEN BlockchainNew(d, 1)
    ELSE mine_pending_transactions(add_transaction(PeerLedger(d, n - 1), PeerTx), "p2", 1)

\* a ledger whose first block does not have previous_hash "0": one block mined
\* on a first block that names "1"
ForgedGenesis ==
    LET first == BlockNew(0, <<>>, <<49>>, 1)
    IN mine_pending_transactions(
           [BlockchainNew(1, 1) EXCEPT !.chain = <<first>>, !.pending_transactions = <<PeerTx>>], "p2", 1)

\* a ledger whose second block was built and mined with index 7
ForgedIndex ==
    LET bc == BlockchainNew(1, 1)
    IN [bc EXCEPT !.chain = Append(bc.chain, mine(BlockNew(7, <<PeerTx>>, get_latest_block(bc).hash, 1), 1))]

\* ledgers a peer may serve: honest ones of every length and difficulty, the
\* longest one with the transactions of its last block swapped, and the two
\* forged ones
PeerLedgers ==
    {PeerLedger(d, n) : d \in Difficulties, n \in 0..(MaxChain - 1)}
    \cup {[PeerLedger(1, MaxChain - 1) EXCEPT !.chain[MaxChain].transactions = <<>>]}
    \cup {ForgedGenesis, ForgedIndex}

\* the ledgers the peers of a node in a game serve: the longest honest ones
NodePeers == {PeerLedger(d, MaxChain - 1) : d \in Difficulties}

ReceiveTransaction(tx) ==
    /\ Len(blockchain.pending_transactions) < MaxPending
    /\ blockchain' = add_transaction(blockchain, tx)
    /\ last' = Call("receive_transaction", tx.player_id, tx.target_x, tx.target_y, 0, "Ok", 0)
    /\ UNCHANGED <<grid, players, round, tally>>
    /\ DiskFrame /\ LockFrame

\* receive_block without the test of the index
ReceiveBlock_NoIndexCheck(block) ==
    /\ Len(blockchain.chain) < MaxChain
    /\ IF \/ block.previous_hash # get_latest_block(blockchain).hash
          \/ ~StartsWith(block.hash, Zeros(blockchain.difficulty))
       THEN /\ last' = [Call("receive_block", "", 0, 0, 0, "Err", 0) EXCEPT !.block = block]
            /\ UNCHANGED blockchain
       ELSE /\ blockchain' = [blockchain EXCEPT !.chain = Append(blockchain.chain, block),
                                                !.pending_transactions = <<>>]
            /\ last' = [Call("receive_block", "", 0, 0, 0, "Ok", 0) EXCEPT !.block = block]
    /\ UNCHANGED <<grid, players, round, tally>>
    /\ DiskFrame /\ LockFrame

ReceiveBlock(block) ==
    /\ Len(blockchain.chain) < MaxChain
    /\ IF \/ block.index # Len(blockchain.chain)
          \/ block.previous_hash # get_latest_block(blockchain).hash
          \/ ~StartsWith(block.hash, Zeros(blockchain.difficulty))
       THEN /\ last' = [Call("receive_block", "", 0, 0, 0, "Err", 0) EXCEPT !.block = block]
            /\ UNCHANGED blockchain
       ELSE /\ blockchain' = [blockchain EXCEPT !.chain = Append(blockchain.chain, block),
                                                !.pending_transactions = <<>>]
            /\ last' = [Call("receive_block", "", 0, 0, 0, "Ok", 0) EXCEPT !.block = block]
    /\ UNCHANGED <<grid, players, round, tally>>
    /\ DiskFrame /\ LockFrame

\* POST /api/block with any of the blocks a peer may post
PostBlock ==
    \E honest \in {HonestBlock(blockchain)} :
        \E block \in PeerBlocks(blockchain, honest) : ReceiveBlock(block)

\* sync_with_peer without the validation of the peer's chain
SyncWithPeer_NoValidation(peer_blockchain) ==
    /\ IF Len(peer_blockchain.chain) > Len(blockchain.chain)
       THEN blockchain' = peer_blockchain
       ELSE UNCHANGED blockchain
    /\ last' = [Call("sync_with_peer", "", 0, 0, 0, "Ok", 0) EXCEPT !.ledger = peer_blockchain]
    /\ UNCHANGED <<grid, players, round, tally>>
    /\ DiskFrame /\ LockFrame

SyncWithPeer(peer_blockchain) ==
    /\ IF Len(peer_blockchain.chain) > Len(blockchain.chain) /\ is_chain_valid(peer_blockchain)
       THEN blockchain' = peer_blockchain
       ELSE UNCHANGED blockchain
    /\ last' = [Call("sync_with_peer", "", 0, 0, 0, "Ok", 0) EXCEPT !.ledger = peer_blockchain]
    /\ UNCHANGED <<grid, players, round, tally>>
    /\ DiskFrame /\ LockFrame

\* the process is started (again) on the snapshot file as it is
Restart(mining_difficulty, now, outcome) ==
    LET started == with_persistence(GridSize, mining_difficulty, disk, now, outcome)
    IN /\ blockchain' = started.blockchain
       /\ grid' = started.grid
       /\ players' = started.players
       /\ round' = started.round
       /\ blockchain_path' = started.blockchain_path
       /\ disk' = started.disk
       /\ last' = [Call("with_persistence", "", 0, 0, mining_difficulty, "Ok", 0) EXCEPT !.saved = outcome]
       /\ tally' = NoTally
       /\ LockFrame

\* Blockchain::load_from_file on the snapshot file as it is
LoadFromFile ==
    /\ last' = [Call("load_from_file", "", 0, 0, 0, load_from_file(disk).res, 0)
                   EXCEPT !.ledger = load_from_file(disk).bc]
    /\ UNCHANGED <<blockchain, grid, players, round, tally>>
    /\ DiskFrame /\ LockFrame

\* the snapshot files a start may find: none, one that cannot be read, one
\* that is not JSON of a ledger, and snapshots of ledgers
StartFiles ==
    {NoFile, Unreadable, Garbage} \cup {FileOf(PeerLedger(d, MaxChain - 1)) : d \in Difficulties}

\* the snapshot file is removed or replaced while the node is down or running
ReplaceFile(file) ==
    /\ disk' = file
    /\ last' = Call("replace_file", "", 0, 0, 0, "Ok", 0)
    /\ UNCHANGED <<blockchain, grid, players, round, tally, blockchain_path>>
    /\ LockFrame

\* a ledger as the program builds it: a first block as create_genesis_block
\* makes it, every later block sealed by mining
AsWritten(bc) ==
    /\ bc.chain # <<>>
    /\ bc.chain[1] = BlockNew(0, <<>>, GenesisPrev, bc.chain[1].timestamp)
    /\ is_chain_valid(bc)

\* one field of one block of a snapshot the program wrote is edited in the file
TamperFile(i, block) ==
    /\ disk.kind = "json"
    /\ AsWritten(disk.bc)
    /\ disk' = FileOf([disk.bc EXCEPT !.chain[i] = block])
    /\ last' = Call("tamper_file", "", 0, 0, i, "Ok", 0)
    /\ UNCHANGED <<blockchain, grid, players, round, tally, blockchain_path>>
    /\ LockFrame

(***************************************************************************)
(* The commitment functions called directly (crypto.rs).                   *)
(***************************************************************************)
MaxPositions == 2

\* cells of a board, one of them with the coordinates 97 and 49, the bytes
\* of "a" and "1"
CommitCells == {<<0, 0>>, <<0, 1>>, <<1, 0>>, <<97, 49>>}

CommitPositions == UNION {[1..n -> CommitCells] : n \in 0..MaxPositions}

\* the salts "a1", "b2", "a2" and "a1b2"
CommitSalts == {Salt1, Salt2, <<97, 50>>, Salt1 \o Salt2}

CreateCommitment(positions, salt) ==
    /\ last' = [Call("create_commitment", "", 0, 0, 0, "Ok", 0)
                   EXCEPT !.positions = positions, !.salt = salt,
                          !.commitment = create_commitment(positions, salt)]
    /\ UNCHANGED <<blockchain, tally>>
    /\ LedgerFrame

\* verify_commitment on the commitment created last
VerifyCommitment(positions, salt) ==
    /\ last.op = "create_commitment"
    /\ last' = [Call("verify_commitment", "", 0, 0, 0,
                     IF verify_commitment(last.commitment, positions, salt) THEN "true" ELSE "false", 0)
                   EXCEPT !.positions = positions, !.salt = salt, !.commitment = last.commitment]
    /\ UNCHANGED <<blockchain, tally>>
    /\ LedgerFrame

(***************************************************************************)
(* Requests in flight (api.rs).  Every handler awaits the coordinator's    *)
(* RwLock first; the mine handler is split at each write it makes while it *)
(* holds the write guard.                                                  *)
(***************************************************************************)
\* node.coordinator.write().await (read().await for a reader) never returns
Unlocked_Always == TRUE

\* node.coordinator.write().await (read().await for a reader) returns
Unlocked == lock = NoHolder

\* the player named in the body of each mine request
Miner(r) == IF r = "m1" THEN "p1" ELSE "p2"

\* transactions peers submit, each one once
ConcTxs == {PeerTx, TransactionNew("p1", 0, 0, 1, 0)}

TxCount(bc, tx) ==
    LET places == UNION {{<<i, k>> : k \in 1..Len(bc.chain[i].transactions)} : i \in 1..Len(bc.chain)}
    IN Cardinality({at \in places : bc.chain[at[1]].transactions[at[2]] = tx})
       + Cardinality({k \in 1..Len(bc.pending_transactions) : bc.pending_transactions[k] = tx})

\* let mut coordinator = node.coordinator.write().await
MineAcquire(r) ==
    /\ pc[r] = "idle"
    /\ Unlocked
    /\ Len(blockchain.chain) < MaxChain
    /\ lock' = r
    /\ pc' = [pc EXCEPT ![r] = "locked"]
    /\ UNCHANGED <<blockchain, grid, players, round, last, tally, seen, net, ctl>>
    /\ DiskFrame

\* mine_for_shots up to self.chain.push(block)
MineSeal(r, now) ==
    /\ pc[r] = "locked"
    /\ IF Miner(r) \notin DOMAIN players \/ is_player_defeated(players, Miner(r))
       THEN /\ last' = Call("mine_for_shots", Miner(r), 0, 0, 0, "Err", 0)
            /\ pc' = [pc EXCEPT ![r] = "failed"]
            /\ UNCHANGED blockchain
       ELSE LET block == mine(BlockNew(Len(blockchain.chain), blockchain.pending_transactions,
                                       get_latest_block(blockchain).hash, now), blockchain.difficulty)
            IN /\ blockchain' = [blockchain EXCEPT !.chain = Append(blockchain.chain, block)]
               /\ pc' = [pc EXCEPT ![r] = "pushed"]
               /\ UNCHANGED last
    /\ UNCHANGED <<grid, players, round, tally, lock, seen, net, ctl>>
    /\ DiskFrame

\* self.pending_transactions.clear()
MineClear(r) ==
    /\ pc[r] = "pushed"
    /\ blockchain' = [blockchain EXCEPT !.pending_transactions = <<>>]
    /\ pc' = [pc EXCEPT ![r] = "cleared"]
    /\ UNCHANGED <<grid, players, round, last, tally, lock, seen, net, ctl>>
    /\ DiskFrame

\* the UTXOs of the reward, add_shots, save_blockchain
MineReward(r) ==
    /\ pc[r] = "cleared"
    /\ LET block == get_latest_block(blockchain)
           shots_earned == blockchain.mining_reward
           minted == [k \in 1..shots_earned |-> MinedUtxo(Miner(r), block.hash, block.index, k - 1)]
           rewarded == [blockchain EXCEPT !.shot_utxos = blockchain.shot_utxos \o minted]
       IN /\ blockchain' = rewarded
          /\ players' = [players EXCEPT ![Miner(r)] = add_shots(players[Miner(r)], shots_earned)]
          /\ \E outcome \in SaveOutcomes(blockchain_path) :
                /\ disk' = save_blockchain(blockchain_path, disk, rewarded, outcome).file
                /\ last' = [Call("mine_for_shots", Miner(r), 0, 0, 0, "Ok", shots_earned)
                               EXCEPT !.saved = outcome]
          /\ tally' = [tally EXCEPT !.awarded[Miner(r)] = @ + shots_earned,
                                     !.minted[Miner(r)] = @ + shots_earned]
    /\ pc' = [pc EXCEPT ![r] = "rewarded"]
    /\ UNCHANGED <<grid, round, blockchain_path, lock, seen, net, ctl>>

\* drop(coordinator), or the guard going out of scope on the error path
MineRelease(r) ==
    /\ pc[r] \in {"rewarded", "failed"}
    /\ lock' = NoHolder
    /\ pc' = [pc EXCEPT ![r] = "idle"]
    /\ UNCHANGED <<blockchain, grid, players, round, last, tally, seen, net, ctl>>
    /\ DiskFrame

\* GET /api/blockchain: the clone taken under the read guard
GetBlockchain ==
    /\ Unlocked
    /\ seen' = [taken |-> TRUE, blockchain |-> blockchain, midway |-> {r \in MineRequests : pc[r] # "idle"}]
    /\ last' = Call("get_blockchain", "", 0, 0, 0, "Ok", 0)
    /\ UNCHANGED <<blockchain, grid, players, round, tally, lock, pc, net, ctl>>
    /\ DiskFrame

\* POST /api/register, /api/fire and /api/transaction, whole under the write
\* guard
RegisterRequest(pid, r, build) == Unlocked /\ RegisterPlayer(pid, r, build)

FireRequest(pid, x, y, now) == Unlocked /\ FireShot(pid, x, y, now)

TransactionRequest(tx) == Unlocked /\ TxCount(blockchain, tx) = 0 /\ ReceiveTransaction(tx)

(***************************************************************************)
(* Two nodes that broadcast to each other (api.rs, network.rs).  A handler *)
(* is split at every await: the coordinator's lock of its own node, and    *)
(* the request to the peer, which the peer's handler answers once it has   *)
(* been given the peer's lock.                                             *)
(***************************************************************************)
\* the handler keeps the write guard across the broadcast
LockAfterDrop_Kept(h) == h

\* drop(coordinator)
LockAfterDrop(h) == NoHolder

\* a node takes no mine request once its chain has MaxNetChain blocks, and
\* no fire request once it or its peer holds MaxNetPending transactions
MaxNetChain == 2

MaxNetPending == 1

\* the clock of each node
NodeClock(n) == IF n = "A" THEN 0 ELSE 1

\* the ledger of a node after its receive_block handler ran on block
receive_block(bc, block) ==
    IF \/ block.index # Len(bc.chain)
       \/ block.previous_hash # get_latest_block(bc).hash
       \/ ~StartsWith(block.hash, Zeros(bc.difficulty))
    THEN bc
    ELSE [bc EXCEPT !.chain = Append(bc.chain, block), !.pending_transactions = <<>>]

\* the ledger of a node after sync_with_peer compared it with the peer's
sync_with_peer(bc, peer_blockchain) ==
    IF Len(peer_blockchain.chain) > Len(bc.chain) /\ is_chain_valid(peer_blockchain)
    THEN peer_blockchain
    ELSE bc

NetFrame ==
    UNCHANGED <<blockchain, grid, players, round, last, tally, blockchain_path, disk, lock, pc, seen>>

\* the request arrives: the mine and fire handlers await the write guard,
\* sync_with_peer sends GET /api/blockchain to the peer
NetStart(h) ==
    /\ ctl.pc[h] = "idle"
    /\ KindOf(h) = "mine" => Len(net.ledger[NodeOf(h)].chain) < MaxNetChain
    /\ KindOf(h) = "fire" =>
          /\ Len(net.ledger[NodeOf(h)].pending_transactions) < MaxNetPending
          /\ Len(net.ledger[PeerOf(NodeOf(h))].pending_transactions) < MaxNetPending
    /\ ctl' = [ctl EXCEPT !.pc[h] = IF KindOf(h) = "sync" THEN "fetching" ELSE "waiting"]
    /\ UNCHANGED net
    /\ NetFrame

\* let mut coordinator = node.coordinator.write().await
AcquireGuard(h) ==
    /\ ctl.pc[h] = "waiting"
    /\ ctl.lock[NodeOf(h)] = NoHolder
    /\ ctl' = [ctl EXCEPT !.lock[NodeOf(h)] = h, !.pc[h] = "locked"]

NetAcquire(h) == AcquireGuard(h) /\ UNCHANGED net /\ NetFrame

\* coordinator.mine_for_shots(player_id) returns
MineReturns(h) ==
    /\ ctl.pc[h] = "locked"
    /\ KindOf(h) = "mine"
    /\ ctl' = [ctl EXCEPT !.pc[h] = "made"]

NetMine(h) ==
    /\ MineReturns(h)
    /\ LET n == NodeOf(h)
           mined == mine_pending_transactions(net.ledger[n], NodePlayer(n), NodeClock(n))
       IN net' = [net EXCEPT !.ledger[n] = mined, !.shots[n] = @ + 1,
                             !.made[h] = get_latest_block(mined)]
    /\ NetFrame

\* coordinator.fire_shot(player_id, target_x, target_y) returns
FireReturns(h) ==
    /\ ctl.pc[h] = "locked"
    /\ KindOf(h) = "fire"
    /\ ctl' = [ctl EXCEPT !.pc[h] = IF net.shots[NodeOf(h)] = 0 THEN "answered" ELSE "made"]

NetFire(h) ==
    /\ FireReturns(h)
    /\ LET n == NodeOf(h)
           tx == TransactionNew(NodePlayer(n), 3, 7, 0, NodeClock(n))
       IN IF net.shots[n] = 0
          THEN UNCHANGED net
          ELSE net' = [net EXCEPT !.ledger[n] = add_transaction(net.ledger[n], tx),
                                  !.shots[n] = @ - 1, !.made[h] = tx]
    /\ NetFrame

\* chain.last() or pending_transactions.last() is cloned under the guard
Cloned(h) ==
    /\ ctl.pc[h] = "made"
    /\ ctl' = [ctl EXCEPT !.pc[h] = "cloned"]

NetClone(h) ==
    /\ Cloned(h)
    /\ LET bc == net.ledger[NodeOf(h)]
       IN net' = [net EXCEPT !.out[h] = IF KindOf(h) = "mine"
                                        THEN get_latest_block(bc)
                                        ELSE bc.pending_transactions[Len(bc.pending_transactions)]]
    /\ NetFrame

\* drop(coordinator), then broadcast_block or broadcast_transaction posts
Dropped(h) ==
    /\ ctl.pc[h] = "cloned"
    /\ ctl' = [ctl EXCEPT !.lock[NodeOf(h)] = LockAfterDrop(h), !.pc[h] = "posting"]

NetDrop(h) == Dropped(h) /\ UNCHANGED net /\ NetFrame

\* the peer's receive_block or receive_transaction handler is given the
\* peer's write guard and answers
PeerAnswersPost(h) ==
    /\ ctl.pc[h] = "posting"
    /\ ctl.lock[PeerOf(NodeOf(h))] = NoHolder
    /\ ctl' = [ctl EXCEPT !.pc[h] = "answered"]

NetDeliver(h) ==
    /\ PeerAnswersPost(h)
    /\ LET m == PeerOf(NodeOf(h))
       IN net' = [net EXCEPT !.ledger[m] = IF KindOf(h) = "mine"
                                           THEN receive_block(net.ledger[m], net.out[h])
                                           ELSE add_transaction(net.ledger[m], net.out[h])]
    /\ NetFrame

\* the peer's get_blockchain handler is given the peer's read guard and
\* answers with a clone of the peer's ledger
PeerAnswersGet(h) ==
    /\ ctl.pc[h] = "fetching"
    /\ ctl.lock[PeerOf(NodeOf(h))] = NoHolder
    /\ ctl' = [ctl EXCEPT !.pc[h] = "fetched"]

NetFetch(h) ==
    /\ PeerAnswersGet(h)
    /\ net' = [net EXCEPT !.out[h] = net.ledger[PeerOf(NodeOf(h))]]
    /\ NetFrame

\* sync_with_peer from self.coordinator.write().await to its return
AdoptGuard(h) ==
    /\ ctl.pc[h] = "fetched"
    /\ ctl.lock[NodeOf(h)] = NoHolder
    /\ ctl' = [ctl EXCEPT !.pc[h] = "answered"]

NetAdopt(h) ==
    /\ AdoptGuard(h)
    /\ net' = [net EXCEPT !.ledger[NodeOf(h)] = sync_with_peer(net.ledger[NodeOf(h)], net.out[h])]
    /\ NetFrame

\* the handler returns; a guard it still holds goes out of scope
Returns(h) ==
    /\ ctl.pc[h] = "answered"
    /\ ctl' = [ctl EXCEPT !.lock[NodeOf(h)] = IF @ = h THEN NoHolder ELSE @, !.pc[h] = "idle"]

NetReturn(h) ==
    /\ Returns(h)
    /\ net' = [net EXCEPT !.made[h] = NoItem, !.out[h] = NoItem]
    /\ NetFrame

\* what any step of a started handler does to the locks and to its place
NetProgress(h) ==
    \/ AcquireGuard(h) \/ MineReturns(h) \/ FireReturns(h) \/ Cloned(h) \/ Dropped(h)
    \/ PeerAnswersPost(h) \/ PeerAnswersGet(h) \/ AdoptGuard(h) \/ Returns(h)

(***************************************************************************)
(* Specifications.                                                         *)
(***************************************************************************)
\* the ledger on its own, driven through its public methods
NextLedger ==
    \/ \E t \in LedgerTxs, now \in Timestamps : AddTransaction(t[1], t[2], t[3], now)
    \/ \E pid \in Ids, now \in Timestamps : MinePendingTransactions(pid, now)
    \/ \E pid \in Ids : ConsumeShot(pid)
    \/ \E pid \in Ids : AwardRegistrationShot(pid)

\* Blockchain::new(d) for every difficulty
InitLedger ==
    /\ \E d \in Difficulties, now \in Timestamps : blockchain = BlockchainNew(d, now)
    /\ grid = GridNew(GridSize)
    /\ players = <<>>
    /\ round = 0
    /\ last = NoCall
    /\ tally = NoTally
    /\ blockchain_path = "None"
    /\ disk = NoFile
    /\ lock = NoHolder
    /\ pc = [r \in MineRequests |-> "idle"]
    /\ seen = NoView
    /\ net = NoNet
    /\ ctl = NoCtl

SpecLedger == InitLedger /\ [][NextLedger]_vars

\* the nonces a block carries when mine() is entered
EntryNonces == {0, 1}

\* blocks as Block::new builds them, and the same with a later nonce and the
\* hash of that content
EntryBlocks ==
    LET t1 == TransactionNew("p1", 0, 0, 0, 0)
        t2 == TransactionNew("p2", 5, 5, 0, 0)
    IN {LET later == [BlockNew(i, txs, prev, now) EXCEPT !.nonce = n]
        IN [later EXCEPT !.hash = calculate_hash(later)] :
            i \in 0..(MaxChain - 1), txs \in {<<>>, <<t1>>, <<t2>>, <<t1, t2>>},
            prev \in {GenesisPrev, create_genesis_block(0).hash},
            n \in EntryNonces, now \in Timestamps}

InitMine ==
    /\ \E now \in Timestamps : blockchain = BlockchainNew(0, now)
    /\ grid = GridNew(GridSize)
    /\ players = <<>>
    /\ round = 0
    /\ tally = NoTally
    /\ blockchain_path = "None"
    /\ disk = NoFile
    /\ lock = NoHolder
    /\ pc = [r \in MineRequests |-> "idle"]
    /\ seen = NoView
    /\ net = NoNet
    /\ ctl = NoCtl
    /\ \E block \in EntryBlocks : last = [Call("Block::new", "", 0, 0, 0, "Ok", 0) EXCEPT !.block = block]

\* block.mine(difficulty) on the block built last
MineBlock(difficulty) ==
    /\ last' = [Call("mine", "", 0, 0, difficulty, "Ok", 0) EXCEPT !.block = mine(last.block, difficulty)]
    /\ UNCHANGED <<blockchain, tally>>
    /\ LedgerFrame

NextMine == \E difficulty \in Difficulties : MineBlock(difficulty)

SpecMine == InitMine /\ [][NextMine]_vars

\* a ledger built by add_transaction and mine_pending_transactions, one field
\* of one of its non-genesis blocks overwritten at the end
NextTamper ==
    \/ /\ last.op # "is_chain_valid"
       /\ \E t \in LedgerTxs, now \in Timestamps : AddTransaction(t[1], t[2], t[3], now)
    \/ /\ last.op # "is_chain_valid"
       /\ \E pid \in Ids, now \in Timestamps : MinePendingTransactions(pid, now)
    \/ /\ last.op # "is_chain_valid"
       /\ \E i \in 2..Len(blockchain.chain) :
             \E block \in Tampered(blockchain.chain[i]) : TamperAndValidate(i, block)

SpecTamper == InitLedger /\ [][NextTamper]_vars

\* registration on its own, over every request
NextRegister ==
    \E pid \in Ids, r \in 1..Len(RegisterRequests), build \in Builds : RegisterPlayer(pid, r, build)

SpecRegister == Init /\ [][NextRegister]_vars

\* the coordinator on its own
NextCoord ==
    \/ \E pid \in Ids, r \in GameRequests, build \in Builds : RegisterPlayer(pid, r, build)
    \/ \E pid \in Ids, now \in Timestamps : MineForShots(pid, now)
    \/ \E pid \in Ids, t \in FireTargets, now \in Timestamps : FireShot(pid, t[1], t[2], now)
    \/ Report

SpecCoord == Init /\ [][NextCoord]_vars

\* registration and hit reports on their own, over every kind of proof
NextReport ==
    \/ \E pid \in Ids, r \in BoardRequests, build \in Builds : RegisterPlayer(pid, r, build)
    \/ ReportAny

SpecReport == Init /\ [][NextReport]_vars

\* a node: the coordinator behind the request handlers, with peers
Next ==
    \/ \E pid \in Ids, r \in GameRequests, build \in Builds : RegisterPlayer(pid, r, build)
    \/ \E pid \in Ids, now \in Timestamps : MineForShots(pid, now)
    \/ \E pid \in Ids, t \in FireTargets, now \in Timestamps : FireShot(pid, t[1], t[2], now)
    \/ ReceiveTransaction(PeerTx)
    \/ PostBlock
    \/ \E peer_blockchain \in NodePeers : SyncWithPeer(peer_blockchain)

Spec == Init /\ [][Next]_vars

\* a node that mines, takes blocks from peers and synchronises with peers that
\* serve any ledger
NextSync ==
    \/ \E build \in Builds : RegisterPlayer("p1", 1, build)
    \/ \E now \in Timestamps : MineForShots("p1", now)
    \/ ReceiveTransaction(PeerTx)
    \/ PostBlock
    \/ \E peer_blockchain \in PeerLedgers : SyncWithPeer(peer_blockchain)

SpecSync == Init /\ [][NextSync]_vars

\* GameCoordinator::with_persistence for every snapshot file a start may find
InitPersist ==
    /\ \E file \in StartFiles, d \in Difficulties, now \in Timestamps, outcome \in WriteOutcomes :
          LET started == with_persistence(GridSize, d, file, now, outcome)
          IN /\ blockchain = started.blockchain
             /\ grid = started.grid
             /\ players = started.players
             /\ round = started.round
             /\ blockchain_path = started.blockchain_path
             /\ disk = started.disk
             /\ last = [Call("with_persistence", "", 0, 0, d, "Ok", 0) EXCEPT !.saved = outcome]
    /\ tally = NoTally
    /\ lock = NoHolder
    /\ pc = [r \in MineRequests |-> "idle"]
    /\ seen = NoView
    /\ net = NoNet
    /\ ctl = NoCtl

\* a node with persistence: it plays, takes transactions from peers and is
\* restarted on the snapshot it left
NextPersist ==
    \/ \E build \in {"release"} : RegisterPlayer("p1", 1, build)
    \/ \E now \in Timestamps : MineForShots("p1", now)
    \/ \E t \in FireTargets, now \in Timestamps : FireShot("p1", t[1], t[2], now)
    \/ ReceiveTransaction(PeerTx)
    \/ \E d \in Difficulties, now \in Timestamps, outcome \in WriteOutcomes : Restart(d, now, outcome)

SpecPersist == InitPersist /\ [][NextPersist]_vars

\* the snapshot file between runs: it is removed, replaced or edited, read
\* by load_from_file, and the node is started on it
NextSnapshot ==
    \/ \E d \in Difficulties, now \in Timestamps, outcome \in WriteOutcomes : Restart(d, now, outcome)
    \/ LoadFromFile
    \/ \E file \in StartFiles : ReplaceFile(file)
    \/ \E i \in 1..Len(disk.bc.chain) : \E block \in Tampered(disk.bc.chain[i]) : TamperFile(i, block)

SpecSnapshot == InitPersist /\ [][NextSnapshot]_vars

\* a node serving two mine requests, registrations, shots, peers' transactions
\* and readers at once
NextConc ==
    \/ \E pid \in Ids : RegisterRequest(pid, 1, "release")
    \/ \E tx \in ConcTxs : TransactionRequest(tx)
    \/ \E t \in FireTargets, now \in Timestamps : FireRequest("p1", t[1], t[2], now)
    \/ GetBlockchain
    \/ \E r \in MineRequests : MineAcquire(r)
    \/ \E r \in MineRequests, now \in Timestamps : MineSeal(r, now)
    \/ \E r \in MineRequests : MineClear(r)
    \/ \E r \in MineRequests : MineReward(r)
    \/ \E r \in MineRequests : MineRelease(r)

SpecConc == Init /\ [][NextConc]_vars

\* commitments created and verified over every list of positions and salt
NextCommit ==
    \/ \E positions \in CommitPositions, salt \in CommitSalts : CreateCommitment(positions, salt)
    \/ \E positions \in CommitPositions, salt \in CommitSalts : VerifyCommitment(positions, salt)

SpecCommit == Init /\ [][NextCommit]_vars

\* a registered fleet is hit cell by cell, in any order
NextDefeat ==
    \/ \E pid \in Reporters, r \in DefeatRequests : RegisterPlayer(pid, r, "release")
    \/ ReportFleetCell

SpecDefeat == Init /\ [][NextDefeat]_vars

\* Two nodes, each the other's peer, with requests in flight on both.  The
\* RwLock of tokio hands the guard to its waiters in the order they asked
\* and every peer request is answered, so a started handler whose next step
\* is possible again and again takes it.
NextNet ==
    \/ \E h \in Handlers : NetStart(h)
    \/ \E h \in Handlers : NetAcquire(h)
    \/ \E h \in Handlers : NetMine(h)
    \/ \E h \in Handlers : NetFire(h)
    \/ \E h \in Handlers : NetClone(h)
    \/ \E h \in Handlers : NetDrop(h)
    \/ \E h \in Handlers : NetDeliver(h)
    \/ \E h \in Handlers : NetFetch(h)
    \/ \E h \in Handlers : NetAdopt(h)
    \/ \E h \in Handlers : NetReturn(h)

SpecNet == Init /\ [][NextNet]_vars /\ \A h \in Handlers : SF_ctl(NetProgress(h))

(***************************************************************************)
(* Properties.                                                             *)
(***************************************************************************)
RECURSIVE LeadingZeroDigits(_)
LeadingZeroDigits(h) == IF h = <<>> \/ h[1] # 48 THEN 0 ELSE 1 + LeadingZeroDigits(Tail(h))

\* a call of op returned in this step
Returned(op) == last'.op = op

\* C1: from Blockchain::new(d), after any add_transaction and
\* mine_pending_transactions calls, every block i >= 1 links to the hash of
\* block i-1, carries the hash of its own contents, and that hash has at least
\* d leading zero hex digits.
C1_LedgerChainValid ==
    \A i \in 2..Len(blockchain.chain) :
        /\ blockchain.chain[i].previous_hash = blockchain.chain[i - 1].hash
        /\ blockchain.chain[i].hash = calculate_hash(blockchain.chain[i])
        /\ LeadingZeroDigits(blockchain.chain[i].hash) >= blockchain.difficulty

C1_Witness ==
    /\ Len(blockchain.chain) = 3
    /\ blockchain.difficulty >= 1
    /\ blockchain.chain[2].transactions # <<>>
    /\ blockchain.chain[3].nonce > 0

\* C2: in every reachable state of a node, whatever blocks and chains peers
\* supply, the local chain passes is_chain_valid().
C2_NodeChainValid == is_chain_valid(blockchain)

\* C3: a register_player call that returns an error leaves the Grid and the
\* player map exactly as they were.
C3_RejectedRegistrationChangesNothing ==
    [][(Returned("register_player") /\ last'.res # "Ok") => (grid' = grid /\ players' = players)]_vars

\* C4: register_player returns Ok exactly for fleets of 4 ships of sizes 1, 2,
\* 3 and 4, each a straight gap-free run along one axis, with the commitment of
\* their cells under the given salt, all cells inside the grid.
InARow(cells, along, across) ==
    LET line == {cells[k][across] : k \in 1..Len(cells)}
        run == {cells[k][along] : k \in 1..Len(cells)}
    IN /\ Cardinality(line) = 1
       /\ Cardinality(run) = Len(cells)
       /\ \A a \in run, b \in run : a - b < Len(cells)

Straight(cells) == InARow(cells, 1, 2) \/ InARow(cells, 2, 1)

FleetAcceptable(req, size) ==
    /\ Len(req.ships) = 4
    /\ \A n \in 1..4 : Cardinality({k \in 1..Len(req.ships) : Len(req.ships[k].positions) = n}) = 1
    /\ \A k \in 1..Len(req.ships) : Straight(req.ships[k].positions)
    /\ req.board_commitment = create_commitment(FlatPositions(req.ships), req.salt)
    /\ \A k \in 1..Len(req.ships) : \A c \in 1..Len(req.ships[k].positions) :
          req.ships[k].positions[c][1] < size /\ req.ships[k].positions[c][2] < size

C5_FireStep ==
    Returned("fire_shot") =>
        /\ (last'.pid \notin DOMAIN players => last'.res = "Err")
        /\ (last'.pid \in DOMAIN players /\ players[last'.pid].shots_available = 0 => last'.res = "Err")
        /\ (last'.res = "Err" => players' = players /\ blockchain' = blockchain)

C5_ShotEconomy ==
    /\ [][C5_FireStep]_vars
    /\ [](\A p \in Ids : tally.fired[p] <= tally.awarded[p])

C5_Witness ==
    /\ last.op = "fire_shot"
    /\ last.res = "Err"
    /\ tally.awarded[last.pid] = 1
    /\ tally.fired[last.pid] = 1

\* C6: a successful fire_shot(player, x, y) takes one credit from that player,
\* appends (x, y) to the player's shots_fired and one transaction of that
\* player and target to the end of the mempool, and changes nothing else.
C6_FireStep ==
    (Returned("fire_shot") /\ last'.res = "Ok") =>
        LET pid == last'.pid
            n == Len(blockchain.pending_transactions)
        IN /\ pid \in DOMAIN players
           /\ DOMAIN players' = DOMAIN players
           /\ players'[pid].shots_available = players[pid].shots_available - 1
           /\ players'[pid].shots_fired = Append(players[pid].shots_fired, <<last'.x, last'.y>>)
           /\ players'[pid].ships = players[pid].ships
           /\ players'[pid].board_commitment = players[pid].board_commitment
           /\ players'[pid].salt = players[pid].salt
           /\ \A q \in DOMAIN players \ {pid} : players'[q] = players[q]
           /\ Len(blockchain'.pending_transactions) = n + 1
           /\ SubSeq(blockchain'.pending_transactions, 1, n) = blockchain.pending_transactions
           /\ blockchain'.pending_transactions[n + 1].player_id = pid
           /\ blockchain'.pending_transactions[n + 1].target_x = last'.x
           /\ blockchain'.pending_transactions[n + 1].target_y = last'.y
           /\ blockchain'.chain = blockchain.chain
           /\ blockchain'.shot_utxos = blockchain.shot_utxos
           /\ grid' = grid

C6_SuccessfulFireEffect == [][C6_FireStep]_vars

C6_Witness ==
    /\ last.op = "fire_shot"
    /\ last.res = "Ok"
    /\ Len(blockchain.pending_transactions) = 2
    /\ Cardinality(DOMAIN players) = 2

\* C7: a successful mine_for_shots(player) appends exactly one block, leaves
\* the mempool empty, returns the ledger's mining_reward and adds exactly that
\* many credits to the player; no other player's balance changes.
C7_MineStep ==
    (Returned("mine_for_shots") /\ last'.res = "Ok") =>
        LET pid == last'.pid
            n == Len(blockchain.chain)
        IN /\ Len(blockchain'.chain) = n + 1
           /\ SubSeq(blockchain'.chain, 1, n) = blockchain.chain
           /\ blockchain'.pending_transactions = <<>>
           /\ last'.ret = blockchain.mining_reward
           /\ pid \in DOMAIN players
           /\ DOMAIN players' = DOMAIN players
           /\ players'[pid].shots_available = players[pid].shots_available + last'.ret
           /\ \A q \in DOMAIN players \ {pid} : players'[q].shots_available = players[q].shots_available

C7_SuccessfulMineEffect == [][C7_MineStep]_vars

C7_Witness ==
    /\ last.op = "mine_for_shots"
    /\ last.res = "Ok"
    /\ get_latest_block(blockchain).transactions # <<>>
    /\ Cardinality(DOMAIN players) = 2

\* every hit flag of every ship of player p is set
EveryShipSunk(pl, p) ==
    /\ p \in DOMAIN pl
    /\ \A k \in 1..Len(pl[p].ships) : \A c \in 1..Len(pl[p].ships[k].hits) : pl[p].ships[k].hits[c]

\* C8: mine_for_shots fails for an unknown player and for a player whose every
\* ship is sunk, and then changes neither the ledger nor any player.
C8_MineStep ==
    (Returned("mine_for_shots") /\ (last'.pid \notin DOMAIN players \/ EveryShipSunk(players, last'.pid))) =>
        /\ last'.res = "Err"
        /\ blockchain' = blockchain
        /\ players' = players

C8_RejectedMineChangesNothing == [][C8_MineStep]_vars

C8_Witness ==
    /\ last.op = "mine_for_shots"
    /\ last.res = "Err"
    /\ EveryShipSunk(players, last.pid)
    /\ Len(blockchain.chain) = 2

\* C9: fire_shot by a player whose every ship is sunk returns an error and
\* appends nothing to the mempool, even when the player holds credits.
C9_DefeatedPlayerCannotFire ==
    [][(Returned("fire_shot") /\ EveryShipSunk(players, last'.pid)) =>
          (last'.res = "Err" /\ blockchain'.pending_transactions = blockchain.pending_transactions)]_vars

\* C10: once a player is defeated, the player stays defeated under every
\* coordinator operation.
C10_DefeatIsTerminal ==
    [][\A p \in Ids : is_player_defeated(players, p) => is_player_defeated(players', p)]_vars

\* the cells of each ship of a fleet, in fleet order
ShipCells(ships) == [k \in 1..Len(ships) |-> ships[k].positions]

\* C11: a player entry, once present, keeps its board_commitment, its salt and
\* the ships it was registered with in every later state, also when
\* register_player is called again with the same id.
C11_StepKeepsEntry ==
    \A p \in DOMAIN players :
        /\ p \in DOMAIN players'
        /\ players'[p].board_commitment = players[p].board_commitment
        /\ players'[p].salt = players[p].salt
        /\ ShipCells(players'[p].ships) = ShipCells(players[p].ships)

C11_PlayerEntryFixedAtFirstRegistration == [][C11_StepKeepsEntry]_vars

\* C12: mine_pending_transactions empties the mempool and appends exactly one
\* block; the block holds the prior mempool contents in their order, its index
\* is the previous chain length and its previous_hash is the previous head's
\* hash; the earlier blocks are unchanged.
C12_MineStep ==
    Returned("mine_pending_transactions") =>
        LET n == Len(blockchain.chain)
        IN /\ blockchain'.pending_transactions = <<>>
           /\ Len(blockchain'.chain) = n + 1
           /\ SubSeq(blockchain'.chain, 1, n) = blockchain.chain
           /\ blockchain'.chain[n + 1].transactions = blockchain.pending_transactions
           /\ blockchain'.chain[n + 1].index = n
           /\ blockchain'.chain[n + 1].previous_hash = blockchain.chain[n].hash

C12_MineMovesMempoolIntoOneBlock == [][C12_MineStep]_vars

C12_Witness ==
    /\ last.op = "mine_pending_transactions"
    /\ Len(blockchain.chain) = 3
    /\ Len(blockchain.chain[3].transactions) = 2
    /\ blockchain.chain[3].transactions[1] # blockchain.chain[3].transactions[2]
    /\ blockchain.chain[2].transactions = <<>>

\* C13: mine_pending_transactions(miner) returns mining_reward and appends
\* exactly that many ShotUtxos, each unspent, owned by miner and created in the
\* new block; the earlier ShotUtxos are unchanged, so the miner's unspent count
\* grows by mining_reward and nobody else's changes.
C13_MineStep ==
    Returned("mine_pending_transactions") =>
        LET m == Len(blockchain.shot_utxos)
            r == blockchain.mining_reward
            miner == last'.pid
        IN /\ last'.ret = r
           /\ Len(blockchain'.shot_utxos) = m + r
           /\ SubSeq(blockchain'.shot_utxos, 1, m) = blockchain.shot_utxos
           /\ \A k \in (m + 1)..(m + r) :
                 /\ blockchain'.shot_utxos[k].owner = miner
                 /\ ~blockchain'.shot_utxos[k].spent
                 /\ blockchain'.shot_utxos[k].created_in_block
                       = blockchain'.chain[Len(blockchain'.chain)].index
           /\ get_unspent_shots(blockchain', miner) = get_unspent_shots(blockchain, miner) + r
           /\ \A q \in Ids \ {miner} :
                 get_unspent_shots(blockchain', q) = get_unspent_shots(blockchain, q)

C13_MineMintsReward == [][C13_MineStep]_vars

C13_Witness ==
    /\ last.op = "mine_pending_transactions"
    /\ Len(blockchain.shot_utxos) = 2
    /\ blockchain.shot_utxos[1].spent
    /\ blockchain.shot_utxos[1].owner # last.pid
    /\ blockchain.shot_utxos[2].created_in_block = 2

\* C14: no two entries of shot_utxos have the same id.
C14_UtxoIdsUnique ==
    \A i \in 1..Len(blockchain.shot_utxos), j \in 1..Len(blockchain.shot_utxos) :
        i # j => blockchain.shot_utxos[i].id # blockchain.shot_utxos[j].id

\* C15: consume_shot(player) marks spent the first unspent ShotUtxo the player
\* owns and changes nothing else; when the player owns none it returns an
\* error and leaves the ledger as it was.
C15_ConsumeStep ==
    Returned("consume_shot") =>
        LET p == last'.pid
            owned == {k \in 1..Len(blockchain.shot_utxos) :
                         blockchain.shot_utxos[k].owner = p /\ ~blockchain.shot_utxos[k].spent}
        IN IF owned = {}
           THEN last'.res = "Err" /\ blockchain' = blockchain
           ELSE /\ last'.res = "Ok"
                /\ \E k \in owned :
                      /\ \A j \in owned : k <= j
                      /\ blockchain' = [blockchain EXCEPT !.shot_utxos[k].spent = TRUE]

C15_ConsumeSpendsFirstOwned == [][C15_ConsumeStep]_vars

C15_Witness ==
    /\ last.op = "consume_shot"
    /\ last.res = "Ok"
    /\ Len(blockchain.shot_utxos) = 2
    /\ \A k \in 1..2 : blockchain.shot_utxos[k].owner = last.pid
    /\ blockchain.shot_utxos[1].spent
    /\ ~blockchain.shot_utxos[2].spent

\* C16: a ShotUtxo is never removed and, once spent, stays spent; no owner has
\* had more successful consume_shot calls than ShotUtxos minted.
C16_UtxoStep ==
    \A k \in 1..Len(blockchain.shot_utxos) :
        /\ k <= Len(blockchain'.shot_utxos)
        /\ blockchain'.shot_utxos[k].id = blockchain.shot_utxos[k].id
        /\ blockchain'.shot_utxos[k].owner = blockchain.shot_utxos[k].owner
        /\ blockchain.shot_utxos[k].spent => blockchain'.shot_utxos[k].spent

C16_CreditConsumedOnce ==
    /\ [][C16_UtxoStep]_vars
    /\ [](\A p \in Ids : tally.consumed[p] <= tally.minted[p])

C16_Witness ==
    /\ last.op = "consume_shot"
    /\ last.res = "Err"
    /\ tally.minted[last.pid] = 2
    /\ tally.consumed[last.pid] = 2

\* the shot of the report_hit call that returned in this step
ReportedShot == <<last'.x, last'.y>>

\* player p of pl2 is player p of pl1 with the hit flag of every cell equal to
\* shot set, and nothing else differs between pl1 and pl2
HitApplied(pl1, pl2, p, shot) ==
    /\ DOMAIN pl2 = DOMAIN pl1
    /\ \A q \in DOMAIN pl1 \ {p} : pl2[q] = pl1[q]
    /\ pl2[p] = [pl1[p] EXCEPT !.ships =
                    [k \in 1..Len(pl1[p].ships) |->
                        [pl1[p].ships[k] EXCEPT !.hits =
                            [c \in 1..Len(pl1[p].ships[k].hits) |->
                                pl1[p].ships[k].hits[c] \/ pl1[p].ships[k].positions[c] = shot]]]]

\* C17: report_hit returns an error and changes nothing when the player is
\* unknown, the proof does not decode or the proof fails verify_hit (claimed
\* hit) or verify_miss (claimed miss); a verified hit sets the hit flag of the
\* matching cell of that player's fleet and nothing else; a verified miss
\* changes nothing.
C17_ReportStep ==
    Returned("report_hit") =>
        LET pid == last'.pid
            proof == last'.wire.proof
            rejected ==
                \/ pid \notin DOMAIN players
                \/ ~last'.wire.decodes
                \/ last'.is_hit /\ ~verify_hit(proof, ReportedShot, players[pid].board_commitment)
                \/ ~last'.is_hit /\ ~verify_miss(proof, ReportedShot, players[pid].board_commitment)
        IN /\ blockchain' = blockchain /\ grid' = grid /\ round' = round
           /\ rejected => last'.res = "Err" /\ players' = players
           /\ ~rejected /\ last'.is_hit =>
                 last'.res = "Ok" /\ HitApplied(players, players', pid, ReportedShot)
           /\ ~rejected /\ ~last'.is_hit => last'.res = "Ok" /\ players' = players

HitProofSound(proof, shot) ==
    /\ proof.revealed_position = <<shot>>
    /\ proof.commitment = create_commitment(<<shot>>, proof.position_salt)

BoardCommitments == {RegisterRequests[r].board_commitment : r \in 1..Len(RegisterRequests)}

\* C18: verify_hit gives the same answer for every board commitment: true
\* exactly when the proof reveals the shot and its commitment is that of the
\* revealed cell under position_salt; so report_hit accepts a prove_hit proof
\* for a cell outside the committed board.
C18_ReportStep ==
    (Returned("report_hit") /\ last'.is_hit /\ last'.wire.decodes) =>
        LET proof == last'.wire.proof
        IN /\ \A c \in BoardCommitments \cup {proof.commitment} :
                 verify_hit(proof, ReportedShot, c) = HitProofSound(proof, ReportedShot)
           /\ last'.pid \in DOMAIN players =>
                 (last'.res = "Ok" <=> HitProofSound(proof, ReportedShot))

ShotCells == {OffFleet} \cup {FlatPositions(FleetV)[k] : k \in 1..Len(FlatPositions(FleetV))}

\* C19: verify_miss is true exactly when the proof's commitment is the board
\* commitment and the proof reveals no position, whatever the shot; so the
\* prove_miss proof of a board verifies against that board's commitment also
\* for a shot at a cell a ship occupies.
C19_ReportStep ==
    (Returned("report_hit") /\ ~last'.is_hit /\ last'.wire.decodes /\ last'.pid \in DOMAIN players) =>
        LET proof == last'.wire.proof
            player == players[last'.pid]
            accepted == proof.commitment = player.board_commitment /\ proof.revealed_position = <<>>
        IN /\ last'.res = "Ok" <=> accepted
           /\ \A shot \in ShotCells \cup {ReportedShot} :
                 verify_miss(proof, shot, player.board_commitment) = accepted
           /\ \A shot \in ShotCells :
                 verify_miss(prove_miss(get_all_ship_positions(player), player.salt), shot,
                             create_commitment(get_all_ship_positions(player), player.salt))

C20_ReceiveStep ==
    Returned("receive_block") =>
        LET block == last'.block
            n == Len(blockchain.chain)
            fits == /\ block.index = n
                    /\ block.previous_hash = blockchain.chain[n].hash
                    /\ LeadingZeroDigits(block.hash) >= blockchain.difficulty
        IN /\ fits => /\ last'.res = "Ok"
                      /\ blockchain'.chain = Append(blockchain.chain, block)
                      /\ blockchain'.pending_transactions = <<>>
                      /\ blockchain'.shot_utxos = blockchain.shot_utxos
           /\ ~fits => /\ last'.res = "Err"
                       /\ blockchain' = blockchain

C20_ReceiveBlockAcceptsExactlyFitting == [][C20_ReceiveStep]_vars

\* a block whose hash is not that of its contents was accepted as the third
\* block of a ledger that holds ShotUtxos
C20_Witness ==
    /\ last.op = "receive_block"
    /\ last.res = "Ok"
    /\ Len(blockchain.chain) = 3
    /\ blockchain.chain[3] = last.block
    /\ last.block.hash # calculate_hash(last.block)
    /\ blockchain.shot_utxos # <<>>

\* C21: sync_with_peer replaces the local ledger by the peer's exactly when the
\* peer's chain is strictly longer than the local one and passes
\* is_chain_valid, and otherwise leaves the ledger as it was; the local chain
\* never gets shorter in any step of a node.
C21_SyncStep ==
    Returned("sync_with_peer") =>
        LET peer == last'.ledger
        IN IF Len(peer.chain) > Len(blockchain.chain) /\ is_chain_valid(peer)
           THEN blockchain' = peer
           ELSE blockchain' = blockchain

C21_SyncAdoptsLongerValidChain ==
    /\ [][C21_SyncStep]_vars
    /\ [][Len(blockchain'.chain) >= Len(blockchain.chain)]_vars

\* the peer's ledger replaced a local ledger that held a mined block and a
\* pending transaction
C21_Witness ==
    /\ last.op = "sync_with_peer"
    /\ blockchain = last.ledger
    /\ Len(blockchain.chain) = 3
    /\ blockchain.shot_utxos # <<>>
    /\ \E p \in DOMAIN players : players[p].shots_available > 0
    /\ \A k \in 1..Len(blockchain.shot_utxos) : blockchain.shot_utxos[k].owner = "p2"
    /\ "p2" \notin DOMAIN players

\* C28: in every state of a node the chain is non-empty, and its first block
\* has index 0 and previous_hash "0".
C28_GenesisKept ==
    /\ Len(blockchain.chain) >= 1
    /\ blockchain.chain[1].index = 0
    /\ blockchain.chain[1].previous_hash = GenesisPrev

\* C29: in every state of a node each block's index is its position in the
\* chain.
C29_IndexIsPosition ==
    \A i \in 1..Len(blockchain.chain) : blockchain.chain[i].index = i - 1

\* C22: after one of hash, previous_hash, transactions and nonce of a
\* non-genesis block of a chain built by add_transaction and
\* mine_pending_transactions was changed, is_chain_valid() returns false.
C22_TamperDetected ==
    last.op = "is_chain_valid" =>
        /\ last.res = "false"
        /\ last.req \in 2..Len(blockchain.chain)

\* the nonce of the middle block of a three-block chain was changed
C22_Witness ==
    /\ last.op = "is_chain_valid"
    /\ last.res = "false"
    /\ last.req = 2
    /\ Len(blockchain.chain) = 3
    /\ blockchain.chain[3].previous_hash = blockchain.chain[2].hash
    /\ blockchain.chain[2].hash # calculate_hash(blockchain.chain[2])
    /\ blockchain.chain[2].hash = calculate_hash([blockchain.chain[2] EXCEPT !.nonce = @ - 1])

\* C26: mine(d) on a block that carries the hash of its contents ends with a
\* hash of at least d leading zero hex digits that is the hash of the final
\* block; the nonce did not decrease, index, timestamp, transactions and
\* previous_hash are as on entry, and a block whose entry hash already meets
\* the target is left as it was.
C26_MineStep ==
    (Returned("mine") /\ last.block.hash = calculate_hash(last.block)) =>
        LET entry == last.block
            final == last'.block
            d == last'.req
        IN /\ LeadingZeroDigits(final.hash) >= d
           /\ final.hash = calculate_hash(final)
           /\ final.nonce >= entry.nonce
           /\ final.index = entry.index
           /\ final.timestamp = entry.timestamp
           /\ final.transactions = entry.transactions
           /\ final.previous_hash = entry.previous_hash
           /\ (LeadingZeroDigits(entry.hash) >= d => final = entry)

C26_MineEndsOnTarget == [][C26_MineStep]_vars

\* a block entered with nonce 1 was mined to difficulty 1 over more than one nonce
C26_Witness ==
    /\ last.op = "mine"
    /\ last.req = 1
    /\ last.block.nonce > 2
    /\ last.block.transactions # <<>>
    /\ last.block.hash[1] = 48
    /\ LET entry == [last.block EXCEPT !.nonce = 1]
       IN calculate_hash(entry)[1] # 48

\* C27: the first block of Blockchain::new(d) has a hash with at least d
\* leading zero hex digits.
C27_GenesisMeetsDifficulty ==
    LeadingZeroDigits(blockchain.chain[1].hash) >= blockchain.difficulty

\* C23: load_from_file returns Ok only for a snapshot that parses and whose
\* chain passes validation, then with the ledger exactly as stored; it returns
\* an error when the file cannot be read or parsed, and when a block of a
\* snapshot the program wrote has been edited.
C23_LoadStep ==
    Returned("load_from_file") =>
        /\ last'.res = "Ok" =>
              /\ disk.kind = "json"
              /\ is_chain_valid(disk.bc)
              /\ last'.ledger = disk.bc
        /\ disk.kind \in {"missing", "unreadable", "garbage"} => last'.res = "Err"
        /\ last.op = "tamper_file" => last'.res = "Err"

C23_LoadRejectsTamperedSnapshot == [][C23_LoadStep]_vars

\* C24: with_persistence starts from the ledger of the snapshot when the
\* snapshot exists and loads; otherwise from a ledger of one genesis block at
\* the requested difficulty with an empty mempool and no UTXOs; in both cases
\* with no players and round 0.
C24_StartStep ==
    Returned("with_persistence") =>
        /\ IF disk.kind = "json" /\ is_chain_valid(disk.bc)
           THEN blockchain' = disk.bc
           ELSE /\ blockchain'.difficulty = last'.req
                /\ Len(blockchain'.chain) = 1
                /\ blockchain'.chain[1].index = 0
                /\ blockchain'.chain[1].transactions = <<>>
                /\ blockchain'.chain[1].previous_hash = GenesisPrev
                /\ blockchain'.pending_transactions = <<>>
                /\ blockchain'.shot_utxos = <<>>
        /\ players' = <<>>
        /\ round' = 0

C24_StartFailsClosed == [][C24_StartStep]_vars

\* the node was started at difficulty 1 on a difficulty-0 snapshot with an
\* edited block, fell back to a fresh ledger, and the write of it failed
C24_Witness ==
    /\ last.op = "with_persistence"
    /\ last.req = 1
    /\ last.saved = "kept"
    /\ disk.kind = "json"
    /\ disk.bc.difficulty = 0
    /\ Len(disk.bc.chain) = 3
    /\ ~is_chain_valid(disk.bc)
    /\ Len(blockchain.chain) = 1
    /\ blockchain.difficulty = 1

\* C25: on a coordinator with persistence, a completed operation that changed
\* the ledger leaves the snapshot equal to the ledger unless the write failed;
\* mine_for_shots and fire_shot return Ok and keep their change when it failed.
C25_SaveStep ==
    (blockchain_path = "Some" /\ blockchain' # blockchain /\ ~Returned("with_persistence")) =>
        /\ last'.saved \notin {"kept", "torn"} => disk' = FileOf(blockchain')
        /\ last'.saved \in {"kept", "torn"} =>
              /\ last'.res = "Ok"
              /\ Returned("mine_for_shots") => Len(blockchain'.chain) = Len(blockchain.chain) + 1
              /\ Returned("fire_shot") =>
                    Len(blockchain'.pending_transactions) = Len(blockchain.pending_transactions) + 1

C25_SnapshotFollowsLedger == [][C25_SaveStep]_vars

\* C30: the ledger and the players change only in a request that holds the
\* coordinator lock alone; blocks of concurrent mine requests are consecutive
\* and linked, no two blocks share an index or a previous_hash, a submitted
\* transaction is in exactly one place (the mempool or one block) whenever the
\* lock is free and in every chain a reader was given, is never lost, and no
\* reader is served while a mine request is between its writes.
C30_Chained ==
    /\ \A i \in 1..Len(blockchain.chain) : blockchain.chain[i].index = i - 1
    /\ \A i \in 2..Len(blockchain.chain) : blockchain.chain[i].previous_hash = blockchain.chain[i - 1].hash
    /\ \A i, j \in 1..Len(blockchain.chain) :
          i # j => /\ blockchain.chain[i].index # blockchain.chain[j].index
                   /\ blockchain.chain[i].previous_hash # blockchain.chain[j].previous_hash

C30_Observed ==
    /\ lock = NoHolder => \A tx \in ConcTxs : TxCount(blockchain, tx) <= 1
    /\ seen.taken =>
          /\ seen.midway = {}
          /\ \A tx \in ConcTxs : TxCount(seen.blockchain, tx) <= 1

C30_Step ==
    /\ (blockchain' # blockchain \/ players' # players \/ grid' # grid) =>
          \/ lock = NoHolder /\ lock' = NoHolder
          \/ \E r \in MineRequests : lock = r /\ lock' = r /\ pc'[r] # pc[r]
    /\ \A tx \in ConcTxs : TxCount(blockchain, tx) >= 1 => TxCount(blockchain', tx) >= 1

HeldTxs(bc) ==
    {bc.pending_transactions[k] : k \in 1..Len(bc.pending_transactions)}
        \cup UNION {{bc.chain[i].transactions[k] : k \in 1..Len(bc.chain[i].transactions)} :
                        i \in 1..Len(bc.chain)}

\* C31: a transaction that a successful fire_shot or receive_transaction put
\* into the mempool is, in every later state of the node, in the mempool or in
\* a block of the local chain.
C31_Step == \A tx \in HeldTxs(blockchain) : tx \in HeldTxs(blockchain')

C31_NoAcceptedShotLost == [][C31_Step]_vars

\* the number of times cell occurs in positions
Occurrences(positions, cell) == Cardinality({k \in 1..Len(positions) : positions[k] = cell})

\* P and Q hold the same cells the same number of times
IsPermutation(P, Q) ==
    /\ Len(P) = Len(Q)
    /\ \A k \in 1..Len(P) : Occurrences(P, P[k]) = Occurrences(Q, P[k])

\* P and Q are equal except for one coordinate of one cell (one character, for
\* salts)
DiffersInOne(P, Q) ==
    /\ Len(P) = Len(Q)
    /\ Cardinality({k \in 1..Len(P) : P[k] # Q[k]}) = 1

DiffersInOneCoordinate(P, Q) ==
    /\ DiffersInOne(P, Q)
    /\ \A k \in 1..Len(P) : P[k] # Q[k] => (P[k][1] = Q[k][1] \/ P[k][2] = Q[k][2])

\* C32: create_commitment of a permutation of the positions, with the same
\* salt, is the same commitment.
C32_CreateStep ==
    (last.op = "create_commitment" /\ Returned("create_commitment")
        /\ IsPermutation(last.positions, last'.positions) /\ last.salt = last'.salt)
    => last'.commitment = last.commitment

C32_CommitmentOrderIndependent == [][C32_CreateStep]_vars

\* two different orders of two different cells were committed to in turn
C32_Witness ==
    /\ last.op = "create_commitment"
    /\ Len(last.positions) = 2
    /\ last.positions[1] = <<1, 0>>
    /\ last.positions[2] = <<0, 1>>
    /\ last.salt = Salt1
    /\ last.commitment = Sha256Hex(<<0, 1, 1, 0>> \o Salt1)

\* C33: verify_commitment accepts a commitment with the positions and salt
\* it was created from, and rejects it when one coordinate of the positions or
\* one character of the salt is replaced by a different one.
C33_VerifyStep ==
    (last.op = "create_commitment" /\ Returned("verify_commitment")) =>
        /\ (last'.positions = last.positions /\ last'.salt = last.salt) => last'.res = "true"
        /\ (DiffersInOneCoordinate(last.positions, last'.positions) /\ last'.salt = last.salt)
              => last'.res = "false"
        /\ (last'.positions = last.positions /\ DiffersInOne(last.salt, last'.salt))
              => last'.res = "false"

C33_CommitmentBinds == [][C33_VerifyStep]_vars

\* a commitment to two cells under "a1" was rejected with the salt "a2"
C33_Witness ==
    /\ last.op = "verify_commitment"
    /\ last.res = "false"
    /\ Len(last.positions) = 2
    /\ last.salt = <<97, 50>>
    /\ last.commitment = Sha256Hex(PairBytes(SortPositions(last.positions)) \o Salt1)

\* C39: verify_commitment accepts a commitment only with a permutation of the
\* positions and with the salt it was created from.
C39_VerifyStep ==
    (last.op = "create_commitment" /\ Returned("verify_commitment") /\ last'.res = "true") =>
        /\ IsPermutation(last.positions, last'.positions)
        /\ last'.salt = last.salt

C39_EncodingInjective == [][C39_VerifyStep]_vars

\* C34: register_player returns Ok or Err for every fleet with coordinates in
\* 0..255; it never aborts on the overflow of a coordinate + 1.
C34_RegistrationNeverAborts ==
    last.op = "register_player" => last.res \in {"Ok", "Err"}

\* C35: every ship of every registered player has as many hit flags as cells.
C35_HitFlagPerCell ==
    \A p \in DOMAIN players : \A k \in 1..Len(players[p].ships) :
        Len(players[p].ships[k].hits) = Len(players[p].ships[k].positions)

\* a hit on cell was reported with success: hit flags start false and only a
\* successful report sets one, on a ship that occupies the reported cell
HitReported(player, cell) ==
    \E k \in 1..Len(player.ships) :
        \E c \in 1..Len(player.ships[k].positions) :
            player.ships[k].positions[c] = cell /\ player.ships[k].hits[c]

\* C37: once a hit was reported with success for every cell a registered
\* player's fleet occupies, is_player_defeated is true for the player and the
\* player is not among the active players.
C37_DefeatComplete ==
    \A p \in DOMAIN players :
        (\A k \in 1..Len(get_all_ship_positions(players[p])) :
            HitReported(players[p], get_all_ship_positions(players[p])[k]))
        => (is_player_defeated(players, p) /\ p \notin get_active_players(players))

\* C36: for every registered player, shots_available equals the number of
\* unspent ShotUtxos the ledger holds for the player.
C36_BalanceBackedByLedger ==
    \A p \in DOMAIN players : players[p].shots_available = get_unspent_shots(blockchain, p)

\* C38: the difficulty of a node's ledger never changes, and every block
\* after the first has at least that many leading zero hex digits.
C38_Step ==
    /\ blockchain'.difficulty = blockchain.difficulty
    /\ \A i \in 2..Len(blockchain'.chain) :
          LeadingZeroDigits(blockchain'.chain[i].hash) >= blockchain.difficulty

C38_DifficultyFixed == [][C38_Step]_vars

\* C40: no handler holds the coordinator's lock of any node while it waits
\* on its peer; the fire and mine handlers broadcast the transaction or
\* block they made under the guard; and every handler that has started
\* returns, so nodes that mine and broadcast to each other do not deadlock.
C40_NoLockWhileWaiting ==
    \A h \in Handlers :
        ctl.pc[h] \in {"posting", "fetching"} => \A n \in Nodes : ctl.lock[n] # h

C40_BroadcastsWhatItMade ==
    \A h \in Handlers : ctl.pc[h] = "posting" => net.out[h] = net.made[h] /\ net.made[h] # NoItem

C40_HandlersComplete ==
    /\ [](C40_NoLockWhileWaiting /\ C40_BroadcastsWhatItMade)
    /\ \A h \in Handlers : (ctl.pc[h] # "idle") ~> (ctl.pc[h] = "idle")

\* both nodes have mined and are posting their block to each other
C40_Witness ==
    /\ ctl.pc["A.mine"] = "posting"
    /\ ctl.pc["B.mine"] = "posting"
    /\ net.out["A.mine"] # net.out["B.mine"]

====
